---- MODULE Spec2Model ----
(***************************************************************************)
(* TUI Form Designer: the flow execution pipeline of                       *)
(* src/src/tui_form_designer/core/flow_engine.py as a state machine.       *)
(*                                                                         *)
(* Python strings that the code takes apart (expressions, step ids) are    *)
(* sequences of one-character strings; strings the code only compares as   *)
(* a whole (step types, messages, file stems) are TLA+ strings.  A Python  *)
(* dict is a function whose DOMAIN is its key set.                         *)
(***************************************************************************)
EXTENDS Integers, Sequences, FiniteSets, TLC

\* ------------------------------------------------------------------------
\* Bounds of the model
\* ------------------------------------------------------------------------

\* Integers of the expression probes range over -MaxInt .. MaxInt.
MaxInt == 11

\* A root definition holds at most MaxSteps steps.
MaxSteps == 2

\* Expressions handed to the evaluator hold at most MaxExprLen characters.
MaxExprLen == 5

\* SIGINT deliveries per execute_flow call of the top-level engine.
MaxInterrupts == 2

\* execute_flow calls made on the one top-level engine.
MaxCalls == 2

\* execute_flow calls nested in one another before the interpreter's
\* recursion limit stops the innermost with RecursionError.
MaxDepth == 3

\* The seconds the force-quit prompt names ("within 2 seconds").
ForceQuitWindow == 2

\* ------------------------------------------------------------------------
\* Python str operations on character sequences
\* ------------------------------------------------------------------------

Digits == {"0", "1", "2", "3", "4", "5", "6", "7", "8", "9"}

\* Characters str.isdigit accepts and int() and float() refuse (superscript
\* two stands for them).
OtherDigits == {"²"}

Whitespace == {" "}

\* The characters of the literal "'\\\"" handed to str.strip at line 559.
QuoteChars == {"'", "\\", "\""}

DigitVal(c) ==
    CASE c = "0" -> 0 [] c = "1" -> 1 [] c = "2" -> 2 [] c = "3" -> 3
      [] c = "4" -> 4 [] c = "5" -> 5 [] c = "6" -> 6 [] c = "7" -> 7
      [] c = "8" -> 8 [] c = "9" -> 9

DigitChar(n) ==
    CASE n = 0 -> "0" [] n = 1 -> "1" [] n = 2 -> "2" [] n = 3 -> "3"
      [] n = 4 -> "4" [] n = 5 -> "5" [] n = 6 -> "6" [] n = 7 -> "7"
      [] n = 8 -> "8" [] n = 9 -> "9"

\* str.lower on one character: the upper-case ASCII letters have a lower
\* case, every other character of the model's strings is uncased.
LowerTable ==
    ("A" :> "a") @@ ("B" :> "b") @@ ("C" :> "c") @@ ("D" :> "d")
    @@ ("E" :> "e") @@ ("F" :> "f") @@ ("G" :> "g") @@ ("H" :> "h")
    @@ ("I" :> "i") @@ ("J" :> "j") @@ ("K" :> "k") @@ ("L" :> "l")
    @@ ("M" :> "m") @@ ("N" :> "n") @@ ("O" :> "o") @@ ("P" :> "p")
    @@ ("Q" :> "q") @@ ("R" :> "r") @@ ("S" :> "s") @@ ("T" :> "t")
    @@ ("U" :> "u") @@ ("V" :> "v") @@ ("W" :> "w") @@ ("X" :> "x")
    @@ ("Y" :> "y") @@ ("Z" :> "z")

LowerChar(c) == IF c \in DOMAIN LowerTable THEN LowerTable[c] ELSE c

\* str.lower
Lower(s) == [i \in 1..Len(s) |-> LowerChar(s[i])]

\* str.startswith
StartsWith(s, p) == Len(p) <= Len(s) /\ SubSeq(s, 1, Len(p)) = p

\* str.isdigit: non-empty and every character a digit.
IsDigit(s) ==
    Len(s) > 0 /\ \A i \in 1..Len(s) : s[i] \in Digits \cup OtherDigits

\* int(s) and float(s) raise ValueError on a character that is no decimal
\* digit (s a string str.isdigit accepted).
NumberRaises(s) == \E i \in 1..Len(s) : s[i] \notin Digits

RECURSIVE LStrip(_, _)
LStrip(s, chars) ==
    IF s # <<>> /\ Head(s) \in chars THEN LStrip(Tail(s), chars) ELSE s

RECURSIVE RStrip(_, _)
RStrip(s, chars) ==
    IF s # <<>> /\ s[Len(s)] \in chars
    THEN RStrip(SubSeq(s, 1, Len(s) - 1), chars)
    ELSE s

\* str.strip(chars)
Strip(s, chars) == RStrip(LStrip(s, chars), chars)

\* The index of the first occurrence of the two-character separator "==",
\* 0 when there is none ("==" in expression).
FindEqEq(s) ==
    LET hits == {i \in 1..(Len(s) - 1) : s[i] = "=" /\ s[i + 1] = "="}
    IN  IF hits = {} THEN 0 ELSE CHOOSE i \in hits : \A j \in hits : i <= j

\* The index of the first occurrence of character c, 0 when there is none.
FindChar(s, c) ==
    LET hits == {i \in 1..Len(s) : s[i] = c}
    IN  IF hits = {} THEN 0 ELSE CHOOSE i \in hits : \A j \in hits : i <= j

\* str.replace(c, "", 1): the first occurrence of c removed.
RemoveFirst(s, c) ==
    LET i == FindChar(s, c)
    IN  IF i = 0 THEN s ELSE SubSeq(s, 1, i - 1) \o SubSeq(s, i + 1, Len(s))

\* str.split(c): the pieces between the occurrences of c.
RECURSIVE SplitOn(_, _)
SplitOn(s, c) ==
    LET i == FindChar(s, c)
    IN  IF i = 0 THEN <<s>>
        ELSE <<SubSeq(s, 1, i - 1)>> \o SplitOn(SubSeq(s, i + 1, Len(s)), c)

\* int(s) of a digit string.
RECURSIVE ParseNat(_)
ParseNat(s) ==
    IF s = <<>> THEN 0
    ELSE 10 * ParseNat(SubSeq(s, 1, Len(s) - 1)) + DigitVal(s[Len(s)])

RECURSIVE Pow10(_)
Pow10(n) == IF n = 0 THEN 1 ELSE 10 * Pow10(n - 1)

\* str(n) of an integer: its decimal text, "-" first when negative.
RECURSIVE NatToStr(_)
NatToStr(n) ==
    IF n < 10 THEN <<DigitChar(n)>>
    ELSE NatToStr(n \div 10) \o <<DigitChar(n % 10)>>

IntToStr(n) == IF n < 0 THEN <<"-">> \o NatToStr(0 - n) ELSE NatToStr(n)

\* ".".join(keys)
RECURSIVE JoinDots(_)
JoinDots(keys) ==
    IF Len(keys) = 0 THEN <<>>
    ELSE IF Len(keys) = 1 THEN keys[1]
    ELSE keys[1] \o <<".">> \o JoinDots(Tail(keys))

\* ------------------------------------------------------------------------
\* Python values
\* ------------------------------------------------------------------------

EmptyDict == [k \in {} |-> FALSE]

\* A value: t its type; n/d its number (d a power of ten: a float is n/d);
\* s its characters; m its mapping.
VNone == [t |-> "none", n |-> 0, d |-> 1, s |-> <<>>, m |-> EmptyDict]

VBool(b) ==
    [t |-> "bool", n |-> IF b THEN 1 ELSE 0, d |-> 1, s |-> <<>>, m |-> EmptyDict]

VInt(i) == [t |-> "int", n |-> i, d |-> 1, s |-> <<>>, m |-> EmptyDict]

VFloat(num, den) ==
    [t |-> "float", n |-> num, d |-> den, s |-> <<>>, m |-> EmptyDict]

VStr(chars) == [t |-> "str", n |-> 0, d |-> 1, s |-> chars, m |-> EmptyDict]

VDict(map) == [t |-> "dict", n |-> 0, d |-> 1, s |-> <<>>, m |-> map]

NumericTypes == {"bool", "int", "float"}

\* Python's a == b: bool, int and float compare by number; a str equals only
\* an equal str; None equals only None.
PyEq(a, b) ==
    IF a.t \in NumericTypes /\ b.t \in NumericTypes
    THEN a.n * b.d = b.n * a.d
    ELSE a.t = b.t /\ a.s = b.s /\ a.m = b.m

\* Python's bool(v)
Truthy(v) ==
    CASE v.t = "none"        -> FALSE
      [] v.t \in NumericTypes -> v.n # 0
      [] v.t = "str"         -> v.s # <<>>
      [] v.t = "dict"        -> DOMAIN v.m # {}

\* {**a, **b}: the keys of both, b's value on a collision.
DictMerge(a, b) ==
    [k \in DOMAIN a \cup DOMAIN b |-> IF k \in DOMAIN b THEN b[k] ELSE a[k]]

\* d[k] = v
DictSet(d, k, v) == [x \in DOMAIN d \cup {k} |-> IF x = k THEN v ELSE d[x]]

\* d.get(k, default)
Get(d, k, default) == IF k \in DOMAIN d THEN d[k] ELSE default

\* ------------------------------------------------------------------------
\* Expression evaluator
\* ------------------------------------------------------------------------

\* FlowEngine._get_nested_value: walk the dotted key; None at the first
\* segment that is missing or reached through a non-dict.
RECURSIVE WalkKeys(_, _)
WalkKeys(value, keys) ==
    IF keys = <<>> THEN value
    ELSE IF value.t = "dict" /\ Head(keys) \in DOMAIN value.m
    THEN WalkKeys(value.m[Head(keys)], Tail(keys))
    ELSE VNone

get_nested_value(data, key) == WalkKeys(VDict(data), SplitOn(key, "."))

\* float(s) of a string that is digits around one dot.
ParseFloat(s) ==
    LET dot == FindChar(s, ".")
    IN  VFloat(ParseNat(RemoveFirst(s, ".")), Pow10(Len(s) - dot))

\* Lines 559-569: the right-hand side as a literal.
ParseLiteral(raw) ==
    LET right == Strip(Strip(raw, Whitespace), QuoteChars)
    IN  IF Lower(right) = <<"t", "r", "u", "e">> THEN VBool(TRUE)
        ELSE IF Lower(right) = <<"f", "a", "l", "s", "e">> THEN VBool(FALSE)
        ELSE IF IsDigit(right) THEN VInt(ParseNat(right))
        ELSE IF IsDigit(RemoveFirst(right, ".")) THEN ParseFloat(right)
        ELSE VStr(right)

\* Lines 565-568: int(right) or float(right) raises ValueError.
ParseLiteralRaises(raw) ==
    LET right == Strip(Strip(raw, Whitespace), QuoteChars)
    IN  /\ Lower(right) \notin {<<"t", "r", "u", "e">>, <<"f", "a", "l", "s", "e">>}
        /\ IsDigit(RemoveFirst(right, ".")) \/ IsDigit(right)
        /\ NumberRaises(RemoveFirst(right, "."))

\* FlowEngine._evaluate_expression raises instead of returning.
evaluate_expression_raises(expression) ==
    /\ FindEqEq(expression) # 0
    /\ ParseLiteralRaises(SubSeq(expression, FindEqEq(expression) + 2,
                                 Len(expression)))

\* FlowEngine._evaluate_expression; the result is a Python bool.
evaluate_expression(expression, context) ==
    LET at == FindEqEq(expression)
    IN  IF at # 0
        THEN LET left  == Strip(SubSeq(expression, 1, at - 1), Whitespace)
                 right == ParseLiteral(SubSeq(expression, at + 2, Len(expression)))
             IN  PyEq(get_nested_value(context, left), right)
        ELSE IF expression \in DOMAIN context
        THEN Truthy(context[expression])
        ELSE FALSE

\* FlowEngine._should_show_step: the gating expression is `condition`, or
\* `when` where `condition` is absent or empty.
StepCondition(step) ==
    IF "condition" \in DOMAIN step /\ step.condition # <<>>
    THEN step.condition
    ELSE step.when

should_show_step(step, context) ==
    IF "condition" \notin DOMAIN step /\ "when" \notin DOMAIN step
    THEN TRUE
    ELSE evaluate_expression(StepCondition(step), context)

\* FlowEngine._should_show_step raises instead of returning.
should_show_step_raises(step) ==
    /\ {"condition", "when"} \cap DOMAIN step # {}
    /\ evaluate_expression_raises(StepCondition(step))

\* ------------------------------------------------------------------------
\* Definition validator
\* ------------------------------------------------------------------------

\* One string of the result: its text without the interpolated parts, the
\* step index (-1: none), the interpolated id and the interpolated name.
Finding(step, what, id, name) ==
    [step |-> step, what |-> what, id |-> id, name |-> name]

RequiredFields == <<"layout_id", "title", "steps">>

StepTypes ==
    {"text", "select", "multiselect", "confirm", "password", "computed", "info"}

\* Lines 268-271
MissingFields(flow_definition) ==
    LET missing(f) ==
            IF f \in DOMAIN flow_definition THEN <<>>
            ELSE <<Finding(-1, "Missing required field", <<>>, f)>>
    IN  missing(RequiredFields[1]) \o missing(RequiredFields[2])
            \o missing(RequiredFields[3])

\* Lines 283-291: a sublayout reference.
SublayoutFindings(i, step, subids) ==
    IF "subid" \notin DOMAIN step
    THEN <<Finding(i, "Sublayout missing 'subid' field", <<>>, "")>>
    ELSE IF step.subid \in subids
    THEN <<Finding(i, "Duplicate subid", step.subid, "")>>
    ELSE <<>>

\* Lines 294-328: a regular step.
RegularFindings(i, step, step_ids) ==
    LET type == IF "type" \in DOMAIN step THEN step.type ELSE "(none)"
    IN  (IF "id" \notin DOMAIN step
         THEN <<Finding(i, "Missing 'id' field", <<>>, "")>>
         ELSE IF step.id \in step_ids
         THEN <<Finding(i, "Duplicate step ID", step.id, "")>>
         ELSE <<>>)
        \o
        (IF "type" \notin DOMAIN step
         THEN <<Finding(i, "Missing 'type' field", <<>>, "")>>
         ELSE IF step.type \notin StepTypes
         THEN <<Finding(i, "Invalid step type", <<>>, step.type)>>
         ELSE <<>>)
        \o
        (IF "message" \notin DOMAIN step /\ type \notin {"computed", "info"}
         THEN <<Finding(i, "Missing 'message' field", <<>>, "")>>
         ELSE <<>>)
        \o
        (IF type \in {"select", "multiselect"} /\ "choices" \notin DOMAIN step
         THEN <<Finding(i, "step missing 'choices' field", <<>>, type)>>
         ELSE <<>>)

\* Lines 275-328: the loop over the steps, i counting from 0, with the ids
\* and subids seen so far.
RECURSIVE ValidateSteps(_, _, _, _)
ValidateSteps(steps, i, step_ids, subids) ==
    IF i >= Len(steps) THEN <<>>
    ELSE LET step == steps[i + 1]
         IN  IF "sublayout" \in DOMAIN step
             THEN SublayoutFindings(i, step, subids)
                  \o ValidateSteps(steps, i + 1, step_ids,
                        IF "subid" \in DOMAIN step
                        THEN subids \cup {step.subid} ELSE subids)
             ELSE RegularFindings(i, step, step_ids)
                  \o ValidateSteps(steps, i + 1,
                        IF "id" \in DOMAIN step
                        THEN step_ids \cup {step.id} ELSE step_ids,
                        subids)

\* Lines 355-364
placeholder_patterns ==
    << <<"e", "x", "a", "m", "p", "l", "e", "_">>,
       <<"t", "e", "s", "t", "_">>,
       <<"p", "l", "a", "c", "e", "h", "o", "l", "d", "e", "r", "_">>,
       <<"s", "a", "m", "p", "l", "e", "_">>,
       <<"d", "e", "m", "o", "_">>,
       <<"t", "e", "m", "p", "_">>,
       <<"m", "o", "c", "k", "_">>,
       <<"d", "u", "m", "m", "y", "_">> >>

\* Lines 367-375
generic_messages ==
    {"Enter a value:", "Provide configuration input", "Enter text here",
     "Select an option", "Choose a value", "Input value", "Type something"}

\* Lines 378-382
generic_instructions ==
    {"Provide configuration input", "Enter your input", "Fill in this field"}

example_input == <<"e", "x", "a", "m", "p", "l", "e", "_", "i", "n", "p", "u", "t">>

\* Lines 390-396: the per-step placeholder check lowers the id first.
IsPlaceholderId(step_id) ==
    LET lowered == Lower(step_id)
    IN  \E p \in 1..Len(placeholder_patterns) :
            StartsWith(lowered, placeholder_patterns[p])

\* Line 429: the single-step check does not.
StartsWithPlaceholder(step_id) ==
    \E p \in 1..Len(placeholder_patterns) :
        StartsWith(step_id, placeholder_patterns[p])

\* Lines 386-424: the scaffolding findings of one step.
StepScaffolding(i, step) ==
    LET step_id     == Get(step, "id", <<>>)
        message     == Get(step, "message", "")
        instruction == Get(step, "instruction", "")
    IN  (IF IsPlaceholderId(step_id)
         THEN <<Finding(i, "Placeholder ID detected", step_id, "")>> ELSE <<>>)
        \o
        (IF message \in generic_messages
         THEN <<Finding(i, "Generic message", step_id, message)>> ELSE <<>>)
        \o
        (IF instruction \in generic_instructions
         THEN <<Finding(i, "Generic instruction", step_id, instruction)>>
         ELSE <<>>)
        \o
        (IF /\ step_id = example_input
            /\ Get(step, "type", "") = "text"
            /\ message = "Enter a value:"
            /\ instruction = "Provide configuration input"
         THEN <<Finding(i, "Matches exact scaffolding template", <<>>, "")>>
         ELSE <<>>)

RECURSIVE ScaffoldingOfSteps(_, _)
ScaffoldingOfSteps(steps, i) ==
    IF i >= Len(steps) THEN <<>>
    ELSE StepScaffolding(i, steps[i + 1]) \o ScaffoldingOfSteps(steps, i + 1)

\* FlowEngine._validate_production_ready
validate_production_ready(flow_definition) ==
    IF "steps" \notin DOMAIN flow_definition THEN <<>>
    ELSE ScaffoldingOfSteps(flow_definition.steps, 0)
         \o
         (IF /\ Len(flow_definition.steps) = 1
             /\ StartsWithPlaceholder(Get(flow_definition.steps[1], "id", <<>>))
          THEN <<Finding(-1, "Only 1 step with placeholder ID", <<>>, "")>>
          ELSE <<>>)

\* A validator that returns at the first group of findings.
validate_flow_StopsAtFirst(flow_definition, strict) ==
    IF MissingFields(flow_definition) # <<>>
    THEN MissingFields(flow_definition)
    ELSE (IF "steps" \in DOMAIN flow_definition
          THEN ValidateSteps(flow_definition.steps, 0, {}, {}) ELSE <<>>)
         \o (IF strict THEN validate_production_ready(flow_definition) ELSE <<>>)

\* FlowEngine.validate_flow
validate_flow(flow_definition, strict) ==
    MissingFields(flow_definition)
    \o (IF "steps" \in DOMAIN flow_definition
        THEN ValidateSteps(flow_definition.steps, 0, {}, {}) ELSE <<>>)
    \o (IF strict THEN validate_production_ready(flow_definition) ELSE <<>>)

\* ------------------------------------------------------------------------
\* Output mapper
\* ------------------------------------------------------------------------

\* A node of an output_mapping: a nested mapping (kind "dict", its entries
\* in kids), a string naming an answer key (kind "str", key), or any other
\* YAML scalar (kind "other").
MapLeaf(key) == [kind |-> "str", key |-> key, kids |-> EmptyDict]

MapNode(kids) == [kind |-> "dict", key |-> <<>>, kids |-> kids]

MapOther == [kind |-> "other", key |-> <<>>, kids |-> EmptyDict]

\* The mapper with a leaf that names an absent answer mapped to None.
RECURSIVE apply_output_mapping_KeepsAbsent(_, _)
apply_output_mapping_KeepsAbsent(answers, mapping) ==
    LET kept == {k \in DOMAIN mapping : mapping[k].kind \in {"dict", "str"}}
    IN  [k \in kept |->
            IF mapping[k].kind = "dict"
            THEN VDict(apply_output_mapping_KeepsAbsent(answers, mapping[k].kids))
            ELSE Get(answers, mapping[k].key, VNone)]

\* FlowEngine._apply_output_mapping: a nested mapping always yields a key
\* (line 630); a string yields one only when it names an answer (line 632).
RECURSIVE apply_output_mapping(_, _)
apply_output_mapping(answers, mapping) ==
    LET kept == {k \in DOMAIN mapping :
                    \/ mapping[k].kind = "dict"
                    \/ mapping[k].kind = "str" /\ mapping[k].key \in DOMAIN answers}
    IN  [k \in kept |->
            IF mapping[k].kind = "dict"
            THEN VDict(apply_output_mapping(answers, mapping[k].kids))
            ELSE answers[mapping[k].key]]

\* ------------------------------------------------------------------------
\* Prompt construction
\* ------------------------------------------------------------------------

\* FlowEngine._build_question: whether a question comes back (an info step
\* with a title prints a header and returns None; a multiselect step falls
\* through every branch to the final return None).
build_question(step) ==
    CASE step.type = "info" -> Get(step, "title", "") = ""
      [] step.type \in {"select", "text", "password", "confirm"} -> TRUE
      [] OTHER -> FALSE

\* ------------------------------------------------------------------------
\* The definitions, mock answers and contexts the executor is run on
\* ------------------------------------------------------------------------

idA == <<"a">>
idB == <<"b">>
idC == <<"c">>
idD == <<"d">>
idE == <<"e">>
idH == <<"h">>
idI == <<"i">>
idM == <<"m">>
idS == <<"s">>
idW == <<"w">>
idNone == <<>>

exprBTrue == <<"b", " ", "=", "=", " ", "t", "r", "u", "e">>
exprBIsSup == <<"b", " ", "=", "=", " ", "²">>
exprAIsX == <<"a", " ", "=", "=", " ", "x">>
subPath == <<"s", "u", "b", ".", "y", "m", "l">>
rootStem == <<"r", "o", "o", "t">>
subStem == <<"s", "u", "b">>

StepPool ==
    << [id |-> idB, type |-> "confirm", message |-> "Enable?"],
       [id |-> idA, type |-> "text", message |-> "Name?", validate |-> "required"],
       [id |-> idC, type |-> "text", message |-> "Opt?", condition |-> exprBTrue],
       [id |-> idD, type |-> "computed", compute |-> exprBTrue,
        condition |-> exprBTrue],
       [id |-> idE, type |-> "computed", when |-> exprBTrue],
       [id |-> idH, type |-> "info", title |-> "Section"],
       [id |-> idM, type |-> "multiselect", message |-> "Pick:",
        choices |-> <<"x", "y">>],
       [sublayout |-> subPath, subid |-> "s1", condition |-> exprBTrue],
       [id |-> idNone, type |-> "text", message |-> "Anonymous?"],
       [type |-> "text", message |-> "x"],
       [id |-> idA, type |-> "password", message |-> "Secret?"],
       [id |-> idW, type |-> "select", message |-> "Which?",
        choices |-> <<"x", "y">>, when |-> exprAIsX],
       [id |-> idI, type |-> "info", message |-> "Note"] >>

\* The sequence of the elements of a set of indices, ascending.
RECURSIVE Ascending(_)
Ascending(S) ==
    IF S = {} THEN <<>>
    ELSE LET lo == CHOOSE i \in S : \A j \in S : i <= j
         IN  <<lo>> \o Ascending(S \ {lo})

\* The step lists: the pool's steps at up to MaxSteps indices, in pool order.
StepLists ==
    {[i \in 1..Len(ix) |-> StepPool[ix[i]]] :
        ix \in {Ascending(S) : S \in {T \in SUBSET (1..Len(StepPool)) :
                                        Cardinality(T) <= MaxSteps}}}

\* The step lists of the definitions that vary the top-level fields.
PlainLists ==
    { <<StepPool[2]>>, <<StepPool[1], StepPool[2]>>,
      <<StepPool[1], StepPool[3]>>, <<StepPool[2], StepPool[12]>> }

\* Step lists whose second step holds an expression int() refuses.
RaisingLists ==
    { <<StepPool[1], [id |-> idC, type |-> "text", message |-> "Opt?",
                      condition |-> exprBIsSup]>>,
      <<StepPool[1], [id |-> idD, type |-> "computed", compute |-> exprBIsSup]>> }

RootMapping ==
    (<<"u">> :> MapNode((<<"n">> :> MapLeaf(idA)) @@ (<<"k">> :> MapLeaf(idC))))
    @@ (<<"f">> :> MapLeaf(idB))

Definition(top, steps) ==
    CASE top = "layout_id" ->
            [layout_id |-> "root", title |-> "S", steps |-> steps]
      [] top = "flow_id" ->
            [flow_id |-> "root", title |-> "S", steps |-> steps]
      [] top = "id" ->
            [id |-> "root", title |-> "S", steps |-> steps]
      [] top = "untitled" ->
            [layout_id |-> "root", steps |-> steps]
      [] top = "mapped" ->
            [layout_id |-> "root", title |-> "S", steps |-> steps,
             output_mapping |-> RootMapping]

\* What yaml.safe_load finds at a path.
NoFile == [kind |-> "missing", def |-> EmptyDict]

EmptyFile == [kind |-> "empty", def |-> EmptyDict]

BadYaml == [kind |-> "malformed", def |-> EmptyDict]

Mapping(def) == [kind |-> "mapping", def |-> def]

RootDocs ==
    {NoFile, EmptyFile, BadYaml}
    \cup {Mapping(Definition("layout_id", steps)) :
            steps \in StepLists \cup RaisingLists}
    \cup {Mapping(Definition(top, steps)) :
            top \in {"flow_id", "id", "untitled", "mapped"}, steps \in PlainLists}

SubDocs ==
    {NoFile,
     Mapping([layout_id |-> "sub", title |-> "Sub",
              steps |-> <<[id |-> idS, type |-> "confirm", message |-> "Sure?"]>>]),
     Mapping([layout_id |-> "sub", title |-> "Sub",
              steps |-> <<[id |-> idA, type |-> "text", message |-> "Again?"]>>,
              output_mapping |-> (idC :> MapLeaf(idA))])}

HasSublayout(doc) ==
    /\ doc.kind = "mapping"
    /\ \E i \in 1..Len(doc.def.steps) : "sublayout" \in DOMAIN doc.def.steps[i]

MockSets ==
    {EmptyDict,
     (idB :> VBool(TRUE)) @@ (idA :> VStr(<<"x">>)) @@ (idC :> VStr(<<"y">>))
        @@ (idD :> VStr(<<"z">>)) @@ (idE :> VStr(<<"z">>))
        @@ (idH :> VStr(<<"z">>)) @@ (idM :> VStr(<<"x">>))
        @@ (idNone :> VStr(<<"n">>)) @@ (idW :> VStr(<<"y">>))
        @@ (idI :> VStr(<<"z">>)) @@ (idS :> VBool(TRUE)),
     (idB :> VBool(FALSE)) @@ (idA :> VStr(<<>>)) @@ (idC :> VStr(<<"y">>))
        @@ (idD :> VStr(<<"z">>))}

Contexts == {EmptyDict, idB :> VBool(TRUE)}

\* The answers the prompt collaborator may give to a step's question.
AskAnswers(step) ==
    IF step.type = "confirm" THEN {VBool(TRUE), VBool(FALSE)}
    ELSE {VStr(<<"x">>)}

\* ------------------------------------------------------------------------
\* Flow executor: state
\* ------------------------------------------------------------------------

VARIABLES
    files,           \* file stem -> what the flows directory holds there
    context0,        \* the caller's context argument
    mock_responses,  \* the caller's mock_responses argument
    frames,          \* the execute_flow calls in progress, outermost first
    engine,          \* the top-level FlowEngine's flag as the call began and,
                     \* between calls, as the last call left it
    handler,         \* the SIGINT handler installed: 0 Python's default,
                     \* k the emergency handler of the engine of frame k
                     \* (1 the top-level engine's, also between calls),
                     \* OrphanHandler that of a sub-run's engine left behind
    outcome,         \* how the last top-level call ended
    calls,           \* top-level calls started
    interrupts,      \* SIGINTs delivered during the current top-level call
    elapsed,         \* seconds from the first of them to the second
    hist,            \* observations of the current top-level call
    last,            \* the kind of the last step taken
    probe            \* input and output of a pure function under test

vars ==
    <<files, context0, mock_responses, frames, engine, handler, outcome,
      calls, interrupts, elapsed, hist, last, probe>>

execVars ==
    <<files, context0, mock_responses, frames, engine, handler, outcome,
      calls, interrupts, elapsed, hist, last>>

NoOutcome == [kind |-> "none", value |-> EmptyDict]

\* asks: ask calls made; cancel: how an ask was cancelled; first_at: where
\* the outermost frame was at the first SIGINT; second_at, second_exit: the
\* seconds between the first SIGINT and the second, and whether the second
\* exited the process; late, late_exit: the SIGINTs handled by the engine's
\* handler after the call ended, and whether one exited the process.
NoHist ==
    [asks |-> 0, cancel |-> "none", first_at |-> "none", second_at |-> -1,
     second_exit |-> FALSE, late |-> 0, late_exit |-> FALSE]

NoProbe == [fn |-> "none"]

Depth == Len(frames)

\* Line 31: the name of the engine's flows directory, the default one.
flows_dir == <<"f", "l", "o", "w", "s">>

\* Path(...).stem of a path whose last component is `name`: the name up to
\* its last dot, the whole name when that dot is its first or its last
\* character.
NameStem(name) ==
    LET dots == {i \in 1..Len(name) : name[i] = "."}
        last_dot == CHOOSE i \in dots : \A j \in dots : j <= i
    IN  IF dots = {} \/ last_dot = 1 \/ last_dot = Len(name) THEN name
        ELSE SubSeq(name, 1, last_dot - 1)

\* Lines 162-166: the flow id a reference is run under, for a relative path
\* without directories and an engine whose flows directory is named
\* directory. The path is joined to the flows directory first and the stem
\* taken of the result, so the paths "" and "." give the stem of the
\* directory's own name; the directory "." has no name and gives "".
PathStem(directory, path) ==
    LET name == IF path \in {<<>>, <<".">>} THEN directory ELSE path
    IN  IF name \in {<<>>, <<".">>} THEN <<>> ELSE NameStem(name)

\* Line 116: the flag execute_flow starts with, given the flag the engine
\* was left with.
EntryExitRequested(previous) == FALSE

\* The emergency handler of an engine a sublayout step created, still
\* installed after that engine's execute_flow call has ended. The engine is
\* reachable through the handler alone, and the handler ran before the call
\* ended, so its flag is set.
OrphanHandler == 0 - 1

\* A frame: one execute_flow call, as signal.signal of lines 117-119
\* returns: the handler is installed, the try of line 121 not yet entered.
\* exit_requested is the attribute of the engine that runs it; original the
\* handler signal.signal returned; at the position at which exc was raised.
NewFrame(flow_id, context, exit_requested, original) ==
    [flow_id |-> flow_id, context |-> context, pc |-> "install",
     def |-> EmptyDict, idx |-> 0, answers |-> EmptyDict,
     exit_requested |-> exit_requested, original |-> original,
     exc |-> "none", at |-> "none", ret |-> EmptyDict]

Raise(frame, exc) == [frame EXCEPT !.pc = "raise", !.exc = exc, !.at = frame.pc]

SetTop(frame) == [frames EXCEPT ![Depth] = frame]

\* FlowEngine._load_flow
load_flow(flow_id) ==
    IF flow_id \in DOMAIN files THEN files[flow_id] ELSE NoFile

\* A run that goes on whatever the validator returned.
ValidationPasses_Always(errors) == TRUE

\* Lines 140-142: whether the validator's result lets the run proceed.
ValidationPasses(errors) == errors = <<>>

\* Lines 157-218: what the loop does with one step, given the caller's
\* context, the answers so far and the mocks.
\*   kind: sublayout | computed | skip | mock | silent | ask
\* Dispatch without the mock branch of lines 192-199.
Dispatch_IgnoresMocks(step, context, answers, mocks) ==
    LET merged == DictMerge(context, answers)
    IN  IF "sublayout" \in DOMAIN step
        THEN [kind |-> "sublayout", answers |-> answers]
        ELSE IF step.type = "computed"
        THEN [kind |-> "computed",
              answers |-> IF "compute" \in DOMAIN step
                          THEN DictSet(answers, step.id,
                                   VBool(evaluate_expression(step.compute, merged)))
                          ELSE answers]
        ELSE IF ~should_show_step(step, merged)
        THEN [kind |-> "skip", answers |-> answers]
        ELSE IF build_question(step)
        THEN [kind |-> "ask", answers |-> answers]
        ELSE [kind |-> "silent", answers |-> answers]

\* Dispatch with the mock consulted before the visibility check.
Dispatch_MockFirst(step, context, answers, mocks) ==
    LET step_id == Get(step, "id", idNone)
        merged  == DictMerge(context, answers)
    IN  IF "sublayout" \in DOMAIN step
        THEN [kind |-> "sublayout", answers |-> answers]
        ELSE IF step.type = "computed"
        THEN [kind |-> "computed",
              answers |-> IF "compute" \in DOMAIN step
                          THEN DictSet(answers, step.id,
                                   VBool(evaluate_expression(step.compute, merged)))
                          ELSE answers]
        ELSE IF step_id # idNone /\ step_id \in DOMAIN mocks
        THEN [kind |-> "mock", answers |-> DictSet(answers, step_id, mocks[step_id])]
        ELSE IF ~should_show_step(step, merged)
        THEN [kind |-> "skip", answers |-> answers]
        ELSE IF build_question(step)
        THEN [kind |-> "ask", answers |-> answers]
        ELSE [kind |-> "silent", answers |-> answers]

Dispatch(step, context, answers, mocks) ==
    LET step_id == Get(step, "id", idNone)
        merged  == DictMerge(context, answers)
    IN  IF "sublayout" \in DOMAIN step
        THEN [kind |-> "sublayout", answers |-> answers]
        ELSE IF step.type = "computed"
        THEN [kind |-> "computed",
              answers |-> IF "compute" \in DOMAIN step
                          THEN DictSet(answers, step.id,
                                   VBool(evaluate_expression(step.compute, merged)))
                          ELSE answers]
        ELSE IF ~should_show_step(step, merged)
        THEN [kind |-> "skip", answers |-> answers]
        ELSE IF step_id # idNone /\ step_id \in DOMAIN mocks
        THEN [kind |-> "mock", answers |-> DictSet(answers, step_id, mocks[step_id])]
        ELSE IF build_question(step)
        THEN [kind |-> "ask", answers |-> answers]
        ELSE [kind |-> "silent", answers |-> answers]

\* A sub-run handed the caller's context alone.
SubContext_CallerOnly(context, answers) == context

\* Line 170: the context a sub-run is started with, a new mapping built
\* from the caller's context and the parent's answers so far.
SubContext(context, answers) == DictMerge(context, answers)

\* Lines 178-189: the expression the loop evaluates for the step (compute of
\* a computed step, condition/when of a regular one) raises ValueError.
StepRaises(step) ==
    /\ "sublayout" \notin DOMAIN step
    /\ IF step.type = "computed"
       THEN "compute" \in DOMAIN step /\ evaluate_expression_raises(step.compute)
       ELSE should_show_step_raises(step)

\* Lines 224-231: the answers after ask returned `answer`.
RecordAnswer(step, answers, answer) ==
    IF Get(step, "id", idNone) # idNone
    THEN DictSet(answers, step.id, answer)
    ELSE answers

\* Lines 246-249
FlowResult(def, answers) ==
    IF "output_mapping" \in DOMAIN def
    THEN apply_output_mapping(answers, def.output_mapping)
    ELSE answers

\* ------------------------------------------------------------------------
\* Flow executor: steps
\* ------------------------------------------------------------------------

Idle == frames = <<>>

ProcessExited == outcome.kind = "SystemExit" \/ hist.late_exit

\* execute_flow is called on the top-level engine: the flag is reset and
\* the emergency handler installed (lines 115-119).
Call ==
    /\ Idle /\ ~ProcessExited /\ calls < MaxCalls
    /\ frames' = <<NewFrame(rootStem, context0,
                            EntryExitRequested(engine.exit_requested), handler)>>
    /\ engine' = [exit_requested |-> EntryExitRequested(engine.exit_requested)]
    /\ handler' = 1
    /\ calls' = calls + 1
    /\ interrupts' = 0
    /\ elapsed' = 0
    /\ outcome' = NoOutcome
    /\ hist' = NoHist
    /\ last' = "call"
    /\ UNCHANGED <<files, context0, mock_responses, probe>>

\* Lines 121-122: the try is entered and _execute_flow_internal called.
EnterTry ==
    /\ ~Idle /\ frames[Depth].pc = "install"
    /\ frames' = SetTop([frames[Depth] EXCEPT !.pc = "load"])
    /\ last' = "enter"
    /\ UNCHANGED <<files, context0, mock_responses, engine, handler, outcome,
                   calls, interrupts, elapsed, hist, probe>>

\* Line 135: the definition file is read.
Load ==
    /\ ~Idle /\ frames[Depth].pc = "load"
    /\ LET f   == frames[Depth]
           doc == load_flow(f.flow_id)
       IN  frames' = SetTop(IF doc.kind = "mapping"
                            THEN [f EXCEPT !.pc = "validate", !.def = doc.def]
                            ELSE Raise(f, "FlowValidationError"))
    /\ last' = "load"
    /\ UNCHANGED <<files, context0, mock_responses, engine, handler, outcome,
                   calls, interrupts, elapsed, hist, probe>>

\* Lines 140-152: the definition is validated, then the header printed.
Validate ==
    /\ ~Idle /\ frames[Depth].pc = "validate"
    /\ LET f == frames[Depth]
       IN  frames' = SetTop(IF ValidationPasses(validate_flow(f.def, TRUE))
                            THEN [f EXCEPT !.pc = "step", !.idx = 1]
                            ELSE Raise(f, "FlowValidationError"))
    /\ last' = "validate"
    /\ UNCHANGED <<files, context0, mock_responses, engine, handler, outcome,
                   calls, interrupts, elapsed, hist, probe>>

AtStep ==
    /\ ~Idle /\ frames[Depth].pc = "step"
    /\ frames[Depth].idx <= Len(frames[Depth].def.steps)

CurrentStep == frames[Depth].def.steps[frames[Depth].idx]

\* Lines 157-218: one turn of the loop, up to the call of ask. A reference
\* creates a new engine and calls its execute_flow, which resets its flag
\* and installs its handler; nothing in the loop looks at the files already
\* being run, so the nesting ends only at the recursion limit.
RunStep ==
    /\ AtStep
    /\ LET f    == frames[Depth]
           step == CurrentStep
           d    == Dispatch(step, f.context, f.answers, mock_responses)
       IN  IF StepRaises(step)
           THEN /\ frames' = SetTop(Raise(f, "ValueError"))
                /\ last' = "error"
                /\ UNCHANGED <<handler, hist>>
           ELSE
           /\ IF d.kind = "sublayout" /\ Depth >= MaxDepth
              THEN /\ frames' = SetTop(Raise(f, "RecursionError"))
                   /\ handler' = handler
              ELSE IF d.kind = "sublayout"
              THEN /\ frames' = Append(SetTop([f EXCEPT !.pc = "sub"]),
                                   NewFrame(PathStem(flows_dir, step.sublayout),
                                            SubContext(f.context, f.answers),
                                            EntryExitRequested(FALSE), handler))
                   /\ handler' = Depth + 1
              ELSE /\ frames' = SetTop(IF d.kind = "ask"
                                       THEN [f EXCEPT !.pc = "ask"]
                                       ELSE [f EXCEPT !.answers = d.answers,
                                                      !.idx = f.idx + 1])
                   /\ handler' = handler
           /\ hist' = IF d.kind = "ask" THEN [hist EXCEPT !.asks = hist.asks + 1]
                      ELSE hist
           /\ last' = d.kind
    /\ UNCHANGED <<files, context0, mock_responses, engine, outcome, calls,
                   interrupts, elapsed, probe>>

\* Lines 220-238: ask returns an answer.
AskAnswered ==
    /\ ~Idle /\ frames[Depth].pc = "ask"
    /\ \E answer \in AskAnswers(CurrentStep) :
         LET f == frames[Depth]
         IN  frames' = SetTop([f EXCEPT
                 !.pc = "step", !.idx = f.idx + 1,
                 !.answers = RecordAnswer(CurrentStep, f.answers, answer)])
    /\ last' = "answer"
    /\ UNCHANGED <<files, context0, mock_responses, engine, handler, outcome,
                   calls, interrupts, elapsed, hist, probe>>

\* Lines 220-224: ask returns None. The loop is still inside the try of
\* line 219, about to print the cancellation (line 225) and raise (line 228).
AskReturnedNone ==
    /\ ~Idle /\ frames[Depth].pc = "ask"
    /\ frames' = SetTop([frames[Depth] EXCEPT !.pc = "cancel"])
    /\ hist' = [hist EXCEPT !.cancel = "ask_none"]
    /\ last' = "none"
    /\ UNCHANGED <<files, context0, mock_responses, engine, handler, outcome,
                   calls, interrupts, elapsed, probe>>

\* A loop that takes None for an answer and goes on.
AskCancelled_NoneIsAnswer(frame, how) ==
    IF how = "ask_none"
    THEN [frame EXCEPT !.pc = "step", !.idx = frame.idx + 1,
                       !.answers = DictSet(frame.answers,
                                       Get(frame.def.steps[frame.idx], "id", idNone),
                                       VNone)]
    ELSE Raise(frame, "FlowExecutionError")

\* Lines 225-228 and 239-243: what ask having returned None, or raising
\* KeyboardInterrupt, leaves of the frame.
AskCancelled(frame, how) == Raise(frame, "FlowExecutionError")

\* The cancellation is printed and FlowExecutionError raised with no signal
\* handled meanwhile: after ask returned None (lines 225-228), or as the
\* collaborator raises KeyboardInterrupt (lines 239-243).
AskFailed ==
    /\ ~Idle
    /\ \E how \in {"ask_none", "ask_interrupt"} :
         /\ frames[Depth].pc = IF how = "ask_none" THEN "cancel" ELSE "ask"
         /\ frames' = SetTop(AskCancelled(frames[Depth], how))
         /\ hist' = [hist EXCEPT !.cancel = how]
         /\ last' = how
    /\ UNCHANGED <<files, context0, mock_responses, engine, handler, outcome,
                   calls, interrupts, elapsed, probe>>

\* Lines 245-249: the loop is over; the result is computed.
Finish ==
    /\ ~Idle /\ frames[Depth].pc = "step"
    /\ frames[Depth].idx > Len(frames[Depth].def.steps)
    /\ LET f == frames[Depth]
       IN  frames' = SetTop([f EXCEPT !.pc = "return",
                                      !.ret = FlowResult(f.def, f.answers)])
    /\ last' = "finish"
    /\ UNCHANGED <<files, context0, mock_responses, engine, handler, outcome,
                   calls, interrupts, elapsed, hist, probe>>

\* Lines 123-126: the finally clause puts back the handler it saved.
RestoredHandler(frame) == frame.original

\* The finally clause runs with no signal pending and execute_flow returns:
\* to the caller, or into the parent's loop (lines 169-176).
Return ==
    /\ ~Idle /\ frames[Depth].pc = "return"
    /\ LET f == frames[Depth]
       IN  /\ handler' = RestoredHandler(f)
           /\ IF Depth = 1
              THEN /\ frames' = <<>>
                   /\ outcome' = [kind |-> "returned", value |-> f.ret]
                   /\ engine' = [exit_requested |-> f.exit_requested]
              ELSE /\ LET p == frames[Depth - 1]
                      IN  frames' = [SubSeq(frames, 1, Depth - 1) EXCEPT
                              ![Depth - 1] = [p EXCEPT
                                  !.pc = "step", !.idx = p.idx + 1,
                                  !.answers = DictMerge(p.answers, f.ret)]]
                   /\ UNCHANGED <<outcome, engine>>
    /\ last' = "return"
    /\ UNCHANGED <<files, context0, mock_responses, calls, interrupts, elapsed,
                   hist, probe>>

\* The finally clause runs with no signal pending and the exception leaves
\* execute_flow: to the caller, or through the parent's loop, which catches
\* nothing around the sub-run.
Unwind ==
    /\ ~Idle /\ frames[Depth].pc = "raise"
    /\ LET f == frames[Depth]
       IN  /\ handler' = RestoredHandler(f)
           /\ IF Depth = 1
              THEN /\ frames' = <<>>
                   /\ outcome' = [kind |-> f.exc, value |-> EmptyDict]
                   /\ engine' = [exit_requested |-> f.exit_requested]
              ELSE /\ frames' = [SubSeq(frames, 1, Depth - 1) EXCEPT
                          ![Depth - 1] = Raise(frames[Depth - 1], f.exc)]
                   /\ UNCHANGED <<outcome, engine>>
    /\ last' = "unwind"
    /\ UNCHANGED <<files, context0, mock_responses, calls, interrupts, elapsed,
                   hist, probe>>

\* The SIGINTs that can arrive together: one, or further ones each handled
\* as the handler run for the one before has started and has not yet set
\* the flag (lines 83-90). Every such run finds the flag as the first did;
\* the innermost goes on, and what it raises passes through the others.
NestedRuns(handled) == 1..(MaxInterrupts - handled)

\* The observations of the call after n SIGINTs arrived together, the
\* outermost frame at `at`, the handler runs exiting or not.
Observed(n, at, exits) ==
    IF interrupts = 0
    THEN IF n = 1 THEN [hist EXCEPT !.first_at = at]
         ELSE [hist EXCEPT !.first_at = at, !.second_at = elapsed,
                           !.second_exit = exits]
    ELSE IF interrupts = 1
    THEN [hist EXCEPT !.second_at = elapsed, !.second_exit = exits]
    ELSE hist

\* FlowEngine._emergency_exit_handler, run at the point the innermost frame
\* has reached: a run that finds the flag set exits; one that does not sets
\* it and raises KeyboardInterrupt, which only the try around ask (lines
\* 219-243: ask itself, and the print and raise after it returned None)
\* turns into a FlowExecutionError.
EmergencyExit(frame) ==
    IF frame.exit_requested
    THEN Raise(frame, "SystemExit")
    ELSE Raise([frame EXCEPT !.exit_requested = TRUE],
               IF frame.pc \in {"ask", "cancel"} THEN "FlowExecutionError"
               ELSE "KeyboardInterrupt")

\* A SIGINT is handled while the innermost call is inside its try, n - 1
\* more as the handler starts.
Interrupt ==
    /\ ~Idle /\ interrupts < MaxInterrupts
    /\ handler = Depth
    /\ frames[Depth].pc \notin {"install", "escape"}
    /\ frames' = SetTop(EmergencyExit(frames[Depth]))
    /\ \E n \in NestedRuns(interrupts) :
         /\ interrupts' = interrupts + n
         /\ hist' = Observed(n, frames[1].pc, frames[Depth].exit_requested)
    /\ last' = "sigint"
    /\ UNCHANGED <<files, context0, mock_responses, engine, handler, outcome,
                   calls, elapsed, probe>>

\* The handler in force exits the process: its engine's flag is set.
HandlerExits ==
    handler = OrphanHandler \/ (handler = Depth /\ frames[Depth].exit_requested)

\* The handler in force starts while the innermost call is outside its try
\* (lines 83-95), n - 1 more SIGINTs handled as it starts: the innermost run
\* sets its engine's flag and prints, about to raise KeyboardInterrupt, or,
\* the flag set already, prints and is about to exit. The call is still in
\* progress: the frame waits at "escape" with what the handler will raise.
HandledOutsideTry ==
    LET f == frames[Depth]
    IN  /\ frames' = SetTop([f EXCEPT
                !.pc = "escape",
                !.at = IF f.pc = "escape" THEN f.at ELSE f.pc,
                !.exc = IF HandlerExits THEN "SystemExit"
                        ELSE "KeyboardInterrupt",
                !.exit_requested = handler = Depth \/ f.exit_requested])
        /\ \E n \in NestedRuns(interrupts) :
             /\ interrupts' = interrupts + n
             /\ hist' = Observed(n, frames[1].pc, HandlerExits)
        /\ last' = "sigint"
        /\ UNCHANGED <<files, context0, mock_responses, engine, handler,
                       outcome, calls, elapsed, probe>>

\* A SIGINT is handled as signal.signal of lines 117-119 returns, before the
\* try of line 121 is entered.
InterruptInstall ==
    /\ ~Idle /\ interrupts < MaxInterrupts
    /\ frames[Depth].pc = "install"
    /\ handler = Depth
    /\ HandledOutsideTry

\* A SIGINT is pending when the finally clause calls signal.signal (line
\* 126), which runs the handler in force before it changes it.
InterruptFinally ==
    /\ ~Idle /\ interrupts < MaxInterrupts
    /\ frames[Depth].pc \in {"return", "raise"}
    /\ handler \in {Depth, OrphanHandler}
    /\ HandledOutsideTry

\* A SIGINT is handled inside the print of a handler that started outside
\* the try (lines 86 and 91): the handler in force runs again, nested, and,
\* the flag set by now, exits.
InterruptInHandler ==
    /\ ~Idle /\ interrupts < MaxInterrupts
    /\ frames[Depth].pc = "escape"
    /\ handler \in {Depth, OrphanHandler}
    /\ HandledOutsideTry

\* Lines 89 and 96: what the handler raises leaves execute_flow with no
\* finally clause to run (or out of the finally clause, before line 126 has
\* changed the handler), so the handler stays installed, and the exception
\* goes to the caller or through the parent's loop.
RaisedOutsideTry ==
    /\ ~Idle /\ frames[Depth].pc = "escape"
    /\ LET f == frames[Depth]
       IN  IF Depth = 1
           THEN /\ frames' = <<>>
                /\ outcome' = [kind |-> f.exc, value |-> EmptyDict]
                /\ engine' = [exit_requested |-> f.exit_requested]
                /\ handler' = handler
           ELSE /\ frames' = [SubSeq(frames, 1, Depth - 1) EXCEPT
                       ![Depth - 1] = Raise(frames[Depth - 1], f.exc)]
                /\ handler' = IF handler = Depth THEN OrphanHandler ELSE handler
                /\ UNCHANGED <<outcome, engine>>
    /\ last' = "escape"
    /\ UNCHANGED <<files, context0, mock_responses, calls, interrupts, elapsed,
                   hist, probe>>

\* A SIGINT is handled after the call has ended with the engine's handler
\* still installed, n - 1 more as the handler starts: the handler runs in
\* the caller's code, on the flag the call left.
InterruptAfterCall ==
    /\ Idle /\ ~ProcessExited
    /\ handler = 1
    /\ interrupts + hist.late < MaxInterrupts
    /\ engine' = [exit_requested |-> TRUE]
    /\ \E n \in NestedRuns(interrupts + hist.late) :
         hist' = [hist EXCEPT !.late = hist.late + n,
                              !.late_exit = engine.exit_requested]
    /\ last' = "late_sigint"
    /\ UNCHANGED <<files, context0, mock_responses, frames, handler, outcome,
                   calls, interrupts, elapsed, probe>>

\* The window the handler's message names (line 93) passes after the first
\* SIGINT of the call, no second one handled so far.
Tick ==
    /\ ~Idle /\ interrupts = 1 /\ elapsed <= ForceQuitWindow
    /\ elapsed' = ForceQuitWindow + 1
    /\ UNCHANGED <<files, context0, mock_responses, frames, engine, handler,
                   outcome, calls, interrupts, hist, last, probe>>

Init ==
    /\ \E root \in RootDocs, sub \in SubDocs :
         /\ HasSublayout(root) \/ sub = NoFile
         /\ files = (rootStem :> root) @@ (subStem :> sub)
    /\ context0 \in Contexts
    /\ mock_responses \in MockSets
    /\ frames = <<>>
    /\ engine = [exit_requested |-> FALSE]
    /\ handler = 0
    /\ outcome = NoOutcome
    /\ calls = 0
    /\ interrupts = 0
    /\ elapsed = 0
    /\ hist = NoHist
    /\ last = "init"
    /\ probe = NoProbe

Next ==
    \/ Call \/ EnterTry \/ Load \/ Validate \/ RunStep \/ AskAnswered
    \/ AskReturnedNone \/ AskFailed \/ Finish \/ Return \/ Unwind \/ Interrupt
    \/ InterruptInstall \/ InterruptFinally \/ InterruptInHandler
    \/ RaisedOutsideTry \/ InterruptAfterCall \/ Tick

Spec == Init /\ [][Next]_vars

\* ------------------------------------------------------------------------
\* Properties of the flow executor
\* ------------------------------------------------------------------------

Merged(frame) == DictMerge(frame.context, frame.answers)

\* The step at hand has a gating expression, and it is false in the context
\* accumulated so far.
Hidden ==
    /\ AtStep
    /\ {"condition", "when"} \cap DOMAIN CurrentStep # {}
    /\ ~evaluate_expression_raises(StepCondition(CurrentStep))
    /\ ~evaluate_expression(StepCondition(CurrentStep), Merged(frames[Depth]))

\* The step at hand is a plain step: no sublayout reference, not computed.
PlainStep ==
    /\ AtStep
    /\ "sublayout" \notin DOMAIN CurrentStep
    /\ CurrentStep.type # "computed"

\* The next state shows the step at hand left alone: no answer recorded, no
\* ask pending, no sub-run started.
LeftAlone ==
    /\ Len(frames') = Depth
    /\ frames'[Depth].answers = frames[Depth].answers
    /\ frames'[Depth].pc # "ask"

\* A sub-run is in progress for a sublayout reference whose gating
\* expression is false in its parent's context.
HiddenSubRun ==
    /\ Depth >= 2
    /\ LET p    == frames[Depth - 1]
           step == p.def.steps[p.idx]
       IN  /\ {"condition", "when"} \cap DOMAIN step # {}
           /\ ~evaluate_expression(StepCondition(step), Merged(p))

\* C1 as stated: every step whose condition/when expression is false in the
\* context accumulated so far records no answer (even when a mock exists for
\* its id) and is never asked; for a sublayout reference, nothing of its
\* sub-run is asked or merged into the parent's answers.
C1_EveryHiddenStepSkipped ==
    [][/\ (Hidden /\ "sublayout" \notin DOMAIN CurrentStep) => LeftAlone
       /\ HiddenSubRun =>
            /\ Len(frames') >= Depth => frames'[Depth].pc # "ask"
            /\ Len(frames') < Depth =>
                 frames'[Depth - 1].answers = frames[Depth - 1].answers]_vars

\* C1 as amended: the same of every step that is neither a computed step
\* nor a sublayout reference.
C1_HiddenPlainStepSkipped == [][(Hidden /\ PlainStep) => LeftAlone]_vars

\* A step with a mock answer for its id has just been skipped.
C1_Witness ==
    /\ ~Idle /\ last = "skip" /\ frames[Depth].idx > 1
    /\ LET step == frames[Depth].def.steps[frames[Depth].idx - 1]
       IN  /\ step.id \in DOMAIN mock_responses
           /\ step.id \notin DOMAIN frames[Depth].answers

\* The step at hand is a regular step whose id the mock mapping holds.
Mocked ==
    /\ AtStep
    /\ "sublayout" \notin DOMAIN CurrentStep
    /\ "id" \in DOMAIN CurrentStep
    /\ CurrentStep.id \in DOMAIN mock_responses

\* The loop has moved past the step at hand.
StepDone == Len(frames') = Depth /\ frames'[Depth].idx = frames[Depth].idx + 1

\* The answers of the next state are those of this one with the mock value
\* stored under the id of the step at hand.
MockStored ==
    frames'[Depth].answers =
        DictSet(frames[Depth].answers, CurrentStep.id,
                mock_responses[CurrentStep.id])

\* C2 as stated: a step whose id is in the mock mapping is never asked, and
\* what is recorded for it is the mock value, exactly.
C2_EveryMockedStepShortCircuits ==
    [][Mocked =>
        /\ frames'[Depth].pc # "ask"
        /\ StepDone =>
            \/ MockStored
            \/ frames'[Depth].answers = frames[Depth].answers]_vars

\* C2 as amended: the same of every step that is not computed and whose id
\* is not empty; the mock value is recorded when the step is visible and
\* nothing is recorded when it is hidden.
C2_MockedPlainStepShortCircuits ==
    [][(Mocked /\ PlainStep /\ CurrentStep.id # idNone) =>
        /\ frames'[Depth].pc # "ask"
        /\ StepDone =>
            IF Hidden THEN frames'[Depth].answers = frames[Depth].answers
            ELSE MockStored]_vars

\* A mock that the step's own validator would have refused (an empty string
\* for a `required` text step) has just been recorded as it is.
C2_Witness ==
    /\ ~Idle /\ last = "mock" /\ frames[Depth].idx > 1
    /\ LET step == frames[Depth].def.steps[frames[Depth].idx - 1]
       IN  /\ Get(step, "validate", "") = "required"
           /\ mock_responses[step.id] = VStr(<<>>)
           /\ frames[Depth].answers[step.id] = VStr(<<>>)

RootDoc == files[rootStem]

\* The root definition is the one C3 describes: a top-level identifier
\* written id or flow_id, a title, no output_mapping, and only unconditional
\* text/select/confirm/password steps that are structurally well formed
\* (distinct ids, a message, choices for a select) and all mocked.
FullyMockedSurvey ==
    /\ RootDoc.kind = "mapping"
    /\ LET def == RootDoc.def
       IN  /\ {"id", "flow_id"} \cap DOMAIN def # {}
           /\ "title" \in DOMAIN def
           /\ "output_mapping" \notin DOMAIN def
           /\ \A i \in 1..Len(def.steps) :
                LET step == def.steps[i]
                IN  /\ {"id", "type", "message"} \subseteq DOMAIN step
                    /\ {"condition", "when", "sublayout"} \cap DOMAIN step = {}
                    /\ step.type \in {"text", "select", "confirm", "password"}
                    /\ step.type = "select" => "choices" \in DOMAIN step
                    /\ step.id # idNone
                    /\ step.id \in DOMAIN mock_responses
                    /\ \A j \in 1..Len(def.steps) :
                         def.steps[j].id = step.id => j = i

\* The mapping step id -> mock value of the root definition's steps.
MockedAnswers ==
    LET steps == RootDoc.def.steps
    IN  [id \in {steps[i].id : i \in 1..Len(steps)} |-> mock_responses[id]]

\* C3: a fully mocked run of such a definition ends Done with exactly the
\* mapping step id -> mock value, and without ask.
C3_FullyMockedRun ==
    (Idle /\ calls >= 1 /\ interrupts = 0 /\ FullyMockedSurvey) =>
        /\ outcome = [kind |-> "returned", value |-> MockedAnswers]
        /\ hist.asks = 0

\* The definition file of a frame was found, parsed to a non-empty document
\* and validates (strict) to an empty list.
GateOpen(frame) ==
    /\ frame.flow_id \in DOMAIN files
    /\ files[frame.flow_id].kind = "mapping"
    /\ validate_flow(files[frame.flow_id].def, TRUE) = <<>>

\* C4: a call whose definition does not pass the gate processes no step (it
\* never reaches the loop, records no answer, starts no sub-run, returns no
\* result), and without a SIGINT ends with FlowValidationError.
C4_ValidationGate ==
    /\ \A k \in 1..Depth :
         \/ /\ frames[k].pc \in {"install", "load", "validate", "raise",
                                 "escape"}
            /\ frames[k].idx = 0
            /\ frames[k].answers = EmptyDict
            /\ k = Depth
            /\ frames[k].exc \in {"none", "FlowValidationError",
                                  "KeyboardInterrupt", "SystemExit"}
         \/ GateOpen(frames[k])
    /\ (Idle /\ calls >= 1) =>
         \/ /\ outcome.kind # "returned"
            /\ hist.asks = 0
            /\ interrupts = 0 => outcome.kind = "FlowValidationError"
         \/ GateOpen([flow_id |-> rootStem])

\* The validator has just refused a definition that was found and parsed.
C4_Witness ==
    /\ Depth = 1 /\ last = "validate"
    /\ frames[1].exc = "FlowValidationError"
    /\ validate_flow(frames[1].def, TRUE) # <<>>

\* C5: ask returning None and ask raising KeyboardInterrupt leave the frame
\* the same: FlowExecutionError raised at the ask, the loop halted at that
\* step, its answers as they were; and without a SIGINT the call ends with
\* FlowExecutionError.
C5_CancellationNormalised ==
    /\ [][(~Idle /\ last' \in {"ask_none", "ask_interrupt"}) =>
            /\ Len(frames') = Depth
            /\ frames'[Depth].pc = "raise"
            /\ frames'[Depth].exc = "FlowExecutionError"
            /\ frames'[Depth].idx = frames[Depth].idx
            /\ frames'[Depth].answers = frames[Depth].answers]_vars
    /\ [](( Idle /\ hist.cancel # "none" /\ interrupts = 0) =>
            outcome = [kind |-> "FlowExecutionError", value |-> EmptyDict])

\* ask has just returned None at a step that follows recorded answers.
C5_Witness ==
    /\ ~Idle /\ last = "ask_none"
    /\ frames[Depth].exc = "FlowExecutionError"
    /\ DOMAIN frames[Depth].answers # {}

Running == {"step", "ask", "cancel", "sub"}

\* C6: a call that received one SIGINT while Running ends with
\* FlowExecutionError, whatever the loop was doing.
C6_CancelAtAnyPoint ==
    (Idle /\ calls >= 1 /\ interrupts = 1 /\ hist.first_at \in Running) =>
        outcome.kind = "FlowExecutionError"

\* C7: the process exits only on the second SIGINT of a call; a call starts
\* with the flag false; a call that received one SIGINT ends with an
\* exception its caller can catch.
C7_SingleInterruptNeverExits ==
    /\ (ProcessExited \/ \E k \in 1..Depth : frames[k].exc = "SystemExit") =>
         interrupts >= 2
    /\ (~Idle /\ last = "call") => ~frames[1].exit_requested
    /\ (Idle /\ calls >= 1 /\ interrupts = 1) =>
         outcome.kind \in {"FlowExecutionError", "KeyboardInterrupt"}

\* The same with the SIGINTs the engine's handler takes after the call
\* counted: the process exits only on the second SIGINT since the call began.
C7_TwoInterruptsSinceCallBegan ==
    /\ (ProcessExited \/ \E k \in 1..Depth : frames[k].exc = "SystemExit") =>
         interrupts + hist.late >= 2
    /\ (~Idle /\ last = "call") => ~frames[1].exit_requested
    /\ (Idle /\ calls >= 1 /\ interrupts = 1) =>
         outcome.kind \in {"FlowExecutionError", "KeyboardInterrupt"}

\* C8: the second SIGINT of a call exits the process when it comes within
\* the window after the first, and only then.
C8_EscalationIsTimed ==
    hist.second_at >= 0 =>
        (hist.second_exit <=> hist.second_at <= ForceQuitWindow)

\* ------------------------------------------------------------------------
\* The expression evaluator run on its own
\* ------------------------------------------------------------------------

keyK == <<"k">>
keyN == <<"n">>
keyU == <<"u">>
keyZ == <<"z">>

\* No execute_flow call is made: the executor's variables stay as built.
Parked ==
    /\ files = (rootStem :> NoFile) @@ (subStem :> NoFile)
    /\ context0 = EmptyDict
    /\ mock_responses = EmptyDict
    /\ frames = <<>>
    /\ engine = [exit_requested |-> FALSE]
    /\ handler = 0
    /\ outcome = NoOutcome
    /\ calls = 0
    /\ interrupts = 0
    /\ elapsed = 0
    /\ hist = NoHist
    /\ last = "init"

\* A context, a dot path into it, and the value found there (None where a
\* segment is missing or is reached through a value that is no dict).
ExprLeft(ctx, path, left) == [ctx |-> ctx, path |-> path, left |-> left]

ExprLefts ==
    {ExprLeft(keyK :> VInt(n), <<keyK>>, VInt(n)) : n \in (0 - MaxInt)..MaxInt}
    \cup {ExprLeft(keyK :> v, <<keyK>>, v) :
            v \in {VBool(TRUE), VBool(FALSE), VFloat(15, 10), VStr(<<"3">>),
                   VStr(<<"-", "3">>), VStr(<<"a", "b", "c">>),
                   VStr(<<"a", "=", "=", "b">>), VStr(<<"1", ".", "5", ".", "2">>)}}
    \cup {ExprLeft(keyU :> VDict(keyN :> VInt(3)), <<keyU, keyN>>, VInt(3)),
          ExprLeft(keyU :> VDict(keyN :> VInt(3)), <<keyU, keyZ>>, VNone),
          ExprLeft(keyK :> VInt(3), <<keyK, keyN>>, VNone),
          ExprLeft(EmptyDict, <<keyK>>, VNone)}

\* A right-hand token and the literal it denotes: the boolean keywords in
\* any case, decimal integers, decimal fractions, and strings bare or
\* quoted.
ExprRight(text, meaning) == [text |-> text, meaning |-> meaning]

ExprRights ==
    {ExprRight(IntToStr(n), VInt(n)) : n \in (0 - MaxInt)..MaxInt}
    \cup {ExprRight(<<"t", "r", "u", "e">>, VBool(TRUE)),
          ExprRight(<<"T", "r", "u", "e">>, VBool(TRUE)),
          ExprRight(<<"F", "A", "L", "S", "E">>, VBool(FALSE)),
          ExprRight(<<"1", ".", "5">>, VFloat(15, 10)),
          ExprRight(<<"3", ".", "0">>, VFloat(30, 10)),
          ExprRight(<<"a", "b", "c">>, VStr(<<"a", "b", "c">>)),
          ExprRight(<<"'", "a", "b", "c", "'">>, VStr(<<"a", "b", "c">>)),
          ExprRight(<<"\"", "a", "b", "c", "\"">>, VStr(<<"a", "b", "c">>)),
          ExprRight(<<"a", "=", "=", "b">>, VStr(<<"a", "=", "=", "b">>)),
          ExprRight(<<"1", ".", "5", ".", "2">>,
                    VStr(<<"1", ".", "5", ".", "2">>))}

ExprPads == {<<>>, <<" ">>}

\* The expression text: path, padding, "==", padding, token.
ExprText(p) ==
    JoinDots(p.path) \o p.pad \o <<"=", "=">> \o p.pad \o p.text

InitExpr ==
    /\ Parked
    /\ \E l \in ExprLefts, r \in ExprRights, pad \in ExprPads :
         probe = [fn |-> "evaluate_expression", done |-> FALSE,
                  ctx |-> l.ctx, path |-> l.path, left |-> l.left,
                  text |-> r.text, meaning |-> r.meaning, pad |-> pad,
                  result |-> FALSE]

\* _evaluate_expression(expression, context) is called.
EvaluateExpression ==
    /\ probe.fn = "evaluate_expression" /\ ~probe.done
    /\ probe' = [probe EXCEPT
                    !.done = TRUE,
                    !.result = evaluate_expression(ExprText(probe), probe.ctx)]
    /\ UNCHANGED execVars

NextExpr == EvaluateExpression

SpecExpr == InitExpr /\ [][NextExpr]_vars

\* C10: an expression "path == token" evaluates to whether the value found
\* at the path (uncoerced) equals the literal the token denotes: a boolean
\* for true/false in any case, else an integer for an integer-looking token,
\* else a float for a float-looking token, else the string without its
\* surrounding quotes; a token holding "==" belongs to the right-hand side.
C10_EqualityComparesLiteral ==
    (probe.fn = "evaluate_expression" /\ probe.done) =>
        probe.result = PyEq(probe.left, probe.meaning)

\* ------------------------------------------------------------------------
\* The output mapper run on its own
\* ------------------------------------------------------------------------

ansN == <<"n">>
ansO == <<"o">>
ansP == <<"p">>

mapDeep == <<"d", "e", "e", "p">>
mapFlag == <<"f", "l", "a", "g">>
mapName == <<"n", "a", "m", "e">>
mapUser == <<"u", "s", "e", "r">>
mapX == <<"x">>

\* The answers of a run: any of n, o (an answer the mapping need not name)
\* and p.
AnswerPool ==
    {[k \in ks |-> CASE k = ansN -> VStr(<<"B", "o", "b">>)
                     [] k = ansO -> VInt(1)
                     [] k = ansP -> VBool(TRUE)] :
        ks \in SUBSET {ansN, ansO, ansP}}

\* Mappings of nesting depth up to three whose leaves name answers, and
\* mappings with an empty nested mapping or a leaf that is no string.
MappingPool ==
    {(mapUser :> MapNode((mapName :> MapLeaf(l1))
                         @@ (mapDeep :> MapNode(mapFlag :> MapLeaf(l2)))))
        @@ (mapX :> MapLeaf(l3)) :
        l1 \in {ansN, ansP}, l2 \in {ansN, ansO, ansP}, l3 \in {ansN, ansP}}
    \cup {mapUser :> MapNode(mapName :> MapLeaf(ansN)),
          (mapName :> MapLeaf(ansN)) @@ (mapX :> MapLeaf(ansN)),
          EmptyDict,
          mapUser :> MapNode(EmptyDict),
          (mapUser :> MapNode(mapName :> MapOther)) @@ (mapX :> MapLeaf(ansN))}

InitMapping ==
    /\ Parked
    /\ \E a \in AnswerPool, m \in MappingPool :
         probe = [fn |-> "apply_output_mapping", done |-> FALSE,
                  answers |-> a, mapping |-> m, result |-> EmptyDict]

\* _apply_output_mapping(answers, mapping) is called.
ApplyOutputMapping ==
    /\ probe.fn = "apply_output_mapping" /\ ~probe.done
    /\ probe' = [probe EXCEPT
                    !.done = TRUE,
                    !.result = apply_output_mapping(probe.answers, probe.mapping)]
    /\ UNCHANGED execVars

NextMapping == ApplyOutputMapping

SpecMapping == InitMapping /\ [][NextMapping]_vars

\* Every leaf of the mapping is a string.
RECURSIVE LeavesAreNames(_)
LeavesAreNames(mapping) ==
    \A k \in DOMAIN mapping :
        CASE mapping[k].kind = "dict" -> LeavesAreNames(mapping[k].kids)
          [] mapping[k].kind = "str"  -> TRUE
          [] OTHER                    -> FALSE

\* The number of leaves that name a key absent from the answers.
RECURSIVE AbsentLeaves(_, _)
AbsentLeaves(mapping, answers) ==
    IF DOMAIN mapping = {} THEN 0
    ELSE LET k    == CHOOSE x \in DOMAIN mapping : TRUE
             rest == [x \in DOMAIN mapping \ {k} |-> mapping[x]]
             here == CASE mapping[k].kind = "dict" ->
                            AbsentLeaves(mapping[k].kids, answers)
                       [] mapping[k].kind = "str" ->
                            IF mapping[k].key \in DOMAIN answers THEN 0 ELSE 1
                       [] OTHER -> 0
         IN  here + AbsentLeaves(rest, answers)

\* The result has the mapping's shape: a nested mapping under every key
\* that holds one, the named answer under every leaf that names a present
\* answer, no key for a leaf that names an absent one, and no other key.
RECURSIVE Mirrors(_, _, _)
Mirrors(result, mapping, answers) ==
    /\ DOMAIN result \subseteq DOMAIN mapping
    /\ \A k \in DOMAIN mapping :
         IF mapping[k].kind = "dict"
         THEN /\ k \in DOMAIN result
              /\ result[k].t = "dict"
              /\ Mirrors(result[k].m, mapping[k].kids, answers)
         ELSE IF mapping[k].key \in DOMAIN answers
         THEN k \in DOMAIN result /\ result[k] = answers[mapping[k].key]
         ELSE k \notin DOMAIN result

\* C9: for a mapping whose leaves are all strings, with every leaf naming a
\* present answer or exactly one naming an absent one, the result mirrors
\* the mapping's nesting with each leaf replaced by the named answer; only
\* the key of the absent leaf is missing, and nothing else appears.
C9_OutputMappingMirrorsSpec ==
    (/\ probe.fn = "apply_output_mapping" /\ probe.done
     /\ LeavesAreNames(probe.mapping)
     /\ AbsentLeaves(probe.mapping, probe.answers) <= 1) =>
        Mirrors(probe.result, probe.mapping, probe.answers)

\* A three-level mapping was applied to answers that lack the one answer its
\* innermost leaf names and hold one answer no leaf names.
C9_Witness ==
    /\ probe.fn = "apply_output_mapping" /\ probe.done
    /\ LeavesAreNames(probe.mapping)
    /\ AbsentLeaves(probe.mapping, probe.answers) = 1
    /\ mapUser \in DOMAIN probe.mapping
    /\ mapDeep \in DOMAIN probe.mapping[mapUser].kids
    /\ probe.mapping[mapUser].kids[mapDeep].kids[mapFlag].key
          \notin DOMAIN probe.answers
    /\ ansO \in DOMAIN probe.answers
    /\ probe.result[mapUser].m[mapName] = VStr(<<"B", "o", "b">>)
    /\ probe.result[mapUser].m[mapDeep].m = EmptyDict

\* ------------------------------------------------------------------------
\* The expression evaluator on every short expression
\* ------------------------------------------------------------------------

\* The characters the expressions are written in.
EvalAlphabet == {"k", ".", "=", "1", "²", " "}

\* Every expression of up to MaxExprLen characters, the empty one included.
EvalExpressions == UNION {[1..n -> EvalAlphabet] : n \in 0..MaxExprLen}

EvalContexts ==
    {EmptyDict,
     keyK :> VInt(1),
     keyK :> VInt(0),
     keyK :> VStr(<<"1">>),
     keyK :> VDict(keyK :> VInt(1)),
     <<>> :> VStr(<<>>),
     <<"k", ".", "k">> :> VBool(TRUE)}

InitEval ==
    /\ Parked
    /\ \E e \in EvalExpressions, c \in EvalContexts :
         probe = [fn |-> "evaluate", done |-> FALSE, expression |-> e,
                  ctx |-> c, raised |-> "none", result |-> FALSE]

\* _evaluate_expression(expression, context) returns, or raises the
\* ValueError of int() or float().
Evaluate ==
    /\ probe.fn = "evaluate" /\ ~probe.done
    /\ probe' =
         IF evaluate_expression_raises(probe.expression)
         THEN [probe EXCEPT !.done = TRUE, !.raised = "ValueError"]
         ELSE [probe EXCEPT
                  !.done = TRUE,
                  !.result = evaluate_expression(probe.expression, probe.ctx)]
    /\ UNCHANGED execVars

NextEval == Evaluate

SpecEval == InitEval /\ [][NextEval]_vars

\* Some segment of the dot path is no key of the mapping reached so far.
RECURSIVE SegmentMissing(_, _)
SegmentMissing(value, keys) ==
    /\ keys # <<>>
    /\ \/ value.t # "dict"
       \/ Head(keys) \notin DOMAIN value.m
       \/ SegmentMissing(value.m[Head(keys)], Tail(keys))

\* C11: evaluate returns a value for every expression and context; without
\* "==" it is false for a text that is no context key and the truthiness of
\* the value for one that is; with "==" it is false when a segment of the
\* left-hand dot path is missing.
C11_EvaluateNeverFails ==
    (probe.fn = "evaluate" /\ probe.done) =>
        LET e    == probe.expression
            at   == FindEqEq(e)
            left == Strip(SubSeq(e, 1, at - 1), Whitespace)
        IN  /\ probe.raised = "none"
            /\ (at = 0 /\ e \notin DOMAIN probe.ctx) => probe.result = FALSE
            /\ (at = 0 /\ e \in DOMAIN probe.ctx) =>
                 probe.result = Truthy(probe.ctx[e])
            /\ (at # 0 /\ SegmentMissing(VDict(probe.ctx), SplitOn(left, "."))) =>
                 probe.result = FALSE

\* ------------------------------------------------------------------------
\* The validators run on their own
\* ------------------------------------------------------------------------

\* FormExecutor.validate_flow (tui_form_engine): `flow_id` is the required
\* identifier, there are no sublayout references, and only five step types.
FormRequiredFields == <<"flow_id", "title", "steps">>

FormStepTypes == {"text", "select", "confirm", "password", "computed"}

FormStepFindings(i, step, step_ids) ==
    LET type == IF "type" \in DOMAIN step THEN step.type ELSE "(none)"
    IN  (IF "id" \notin DOMAIN step
         THEN <<Finding(i, "Missing 'id' field", <<>>, "")>>
         ELSE IF step.id \in step_ids
         THEN <<Finding(i, "Duplicate step ID", step.id, "")>>
         ELSE <<>>)
        \o
        (IF "type" \notin DOMAIN step
         THEN <<Finding(i, "Missing 'type' field", <<>>, "")>>
         ELSE IF step.type \notin FormStepTypes
         THEN <<Finding(i, "Invalid step type", <<>>, step.type)>>
         ELSE <<>>)
        \o
        (IF "message" \notin DOMAIN step /\ type # "computed"
         THEN <<Finding(i, "Missing 'message' field", <<>>, "")>>
         ELSE <<>>)
        \o
        (IF type = "select" /\ "choices" \notin DOMAIN step
         THEN <<Finding(i, "Select step missing 'choices' field", <<>>, "")>>
         ELSE <<>>)

RECURSIVE FormValidateSteps(_, _, _)
FormValidateSteps(steps, i, step_ids) ==
    IF i >= Len(steps) THEN <<>>
    ELSE FormStepFindings(i, steps[i + 1], step_ids)
         \o FormValidateSteps(steps, i + 1,
               IF "id" \in DOMAIN steps[i + 1]
               THEN step_ids \cup {steps[i + 1].id} ELSE step_ids)

FormExecutor_validate_flow(flow_definition) ==
    LET missing(f) ==
            IF f \in DOMAIN flow_definition THEN <<>>
            ELSE <<Finding(-1, "Missing required field", <<>>, f)>>
    IN  missing(FormRequiredFields[1]) \o missing(FormRequiredFields[2])
        \o missing(FormRequiredFields[3])
        \o (IF "steps" \in DOMAIN flow_definition
            THEN FormValidateSteps(flow_definition.steps, 0, {}) ELSE <<>>)

\* The steps the validators are run on: well formed ones, and ones with
\* each structural violation.
ValStepPool ==
    { [id |-> idA, type |-> "text", message |-> "Name?"],
      [id |-> idB, type |-> "confirm", message |-> "Enable?"],
      [id |-> idA, type |-> "password", message |-> "Secret?"],
      [type |-> "text", message |-> "x"],
      [id |-> idC, message |-> "Opt?"],
      [id |-> idD, type |-> "slider", message |-> "How much?"],
      [id |-> idE, type |-> "text"],
      [id |-> idW, type |-> "select", message |-> "Which?"],
      [id |-> idM, type |-> "multiselect"],
      [id |-> idD, type |-> "computed", compute |-> exprBTrue],
      [id |-> idH, type |-> "info", title |-> "Section"],
      [sublayout |-> subPath],
      [sublayout |-> subPath, subid |-> "s1"],
      [id |-> <<"t", "e", "s", "t", "_", "x">>, type |-> "text",
       message |-> "Enter a value:"] }

\* Step lists of up to MaxSteps steps, a step possibly repeated.
ValStepLists == UNION {[1..n -> ValStepPool] : n \in 0..MaxSteps}

\* Definitions with each choice of identifier field, with and without a
\* title, and definitions without steps.
ValDefinitions ==
    {[f \in fields |-> CASE f = "steps" -> steps
                         [] f = "title" -> "S"
                         [] OTHER -> "root"] :
        fields \in {ident \cup rest \cup {"steps"} :
                      ident \in {{}, {"layout_id"}, {"id"}, {"flow_id"},
                                 {"id", "layout_id"}},
                      rest \in {{}, {"title"}}},
        steps \in ValStepLists}
    \cup {[f \in fields |-> IF f = "title" THEN "S" ELSE "root"] :
            fields \in {{}, {"title"}, {"layout_id", "title"}}}

\* The number of times x occurs in a sequence.
Occurrences(seq, x) == Cardinality({i \in 1..Len(seq) : seq[i] = x})

InitValidate ==
    /\ Parked
    /\ \E d \in ValDefinitions, strict \in BOOLEAN,
          class \in {"FlowEngine", "FormExecutor"} :
         /\ class = "FormExecutor" => strict = FALSE
         /\ probe = [fn |-> "validate_flow", engine |-> class,
                     definition |-> d, strict |-> strict, calls |-> 0,
                     first |-> <<>>]

\* What validate_flow returns for the probe's engine.
ValidateWith(class, flow_definition, strict) ==
    IF class = "FlowEngine" THEN validate_flow(flow_definition, strict)
    ELSE FormExecutor_validate_flow(flow_definition)

\* validate_flow is called on the definition.
ValidateFlow ==
    /\ probe.fn = "validate_flow" /\ probe.calls = 0
    /\ probe' = [probe EXCEPT
          !.calls = 1,
          !.first = ValidateWith(probe.engine, probe.definition, probe.strict)]
    /\ UNCHANGED execVars

NextValidate == ValidateFlow

SpecValidate == InitValidate /\ [][NextValidate]_vars

\* ------------------------------------------------------------------------
\* FlowEngine.validate_flow run statement by statement, twice on one
\* definition object
\* ------------------------------------------------------------------------

\* definition: the caller's definition as it was before the first call;
\* flow_definition: the object the calls are given, as it is now; errors,
\* step_ids, subids, i: the names the function binds, holding what the
\* last call left in them until a call binds them anew; calls: the calls
\* that have returned; first, second: what they returned.
InitValidateRun ==
    /\ Parked
    /\ \E d \in ValDefinitions, strict \in BOOLEAN :
         probe = [fn |-> "validate_flow_run", definition |-> d,
                  flow_definition |-> d, strict |-> strict, calls |-> 0,
                  pc |-> "call", i |-> 0, errors |-> <<>>, step_ids |-> {},
                  subids |-> {}, first |-> <<>>, second |-> <<>>]

\* A validator whose sets of seen ids live on from one call to the next.
ValidateCall_KeepsSeen ==
    /\ probe.fn = "validate_flow_run" /\ probe.pc = "call" /\ probe.calls < 2
    /\ probe' =
         IF "steps" \in DOMAIN probe.flow_definition
         THEN [probe EXCEPT !.errors = MissingFields(probe.flow_definition),
                            !.i = 0, !.pc = "loop"]
         ELSE [probe EXCEPT !.errors = MissingFields(probe.flow_definition),
                            !.pc = "strict"]
    /\ UNCHANGED execVars

\* Lines 265-276: a call binds errors to a new list holding the missing
\* required fields and, the definition having steps, step_ids and subids to
\* new empty sets.
ValidateCall ==
    /\ probe.fn = "validate_flow_run" /\ probe.pc = "call" /\ probe.calls < 2
    /\ probe' =
         IF "steps" \in DOMAIN probe.flow_definition
         THEN [probe EXCEPT !.errors = MissingFields(probe.flow_definition),
                            !.step_ids = {}, !.subids = {}, !.i = 0,
                            !.pc = "loop"]
         ELSE [probe EXCEPT !.errors = MissingFields(probe.flow_definition),
                            !.pc = "strict"]
    /\ UNCHANGED execVars

\* Lines 277-328: one turn of the loop, on step i. It appends the step's
\* findings and adds a new subid (line 288) or id (line 299) to the set of
\* those seen; the step and the definition are only read.
ValidateLoop ==
    /\ probe.fn = "validate_flow_run" /\ probe.pc = "loop"
    /\ probe.i < Len(probe.flow_definition.steps)
    /\ LET i == probe.i
           step == probe.flow_definition.steps[i + 1]
       IN  probe' =
             IF "sublayout" \in DOMAIN step
             THEN [probe EXCEPT
                     !.errors = @ \o SublayoutFindings(i, step, probe.subids),
                     !.subids = IF "subid" \in DOMAIN step
                                THEN @ \cup {step.subid} ELSE @,
                     !.i = i + 1]
             ELSE [probe EXCEPT
                     !.errors = @ \o RegularFindings(i, step, probe.step_ids),
                     !.step_ids = IF "id" \in DOMAIN step
                                  THEN @ \cup {step.id} ELSE @,
                     !.i = i + 1]
    /\ UNCHANGED execVars

\* Lines 330-334: the loop over, the strict findings are appended and the
\* list is returned.
ValidateReturn ==
    /\ probe.fn = "validate_flow_run"
    /\ \/ probe.pc = "strict"
       \/ /\ probe.pc = "loop"
          /\ probe.i >= Len(probe.flow_definition.steps)
    /\ LET returned ==
               probe.errors
               \o (IF probe.strict
                   THEN validate_production_ready(probe.flow_definition)
                   ELSE <<>>)
       IN  probe' = [probe EXCEPT
                       !.errors = returned,
                       !.first = IF probe.calls = 0 THEN returned ELSE @,
                       !.second = IF probe.calls = 1 THEN returned ELSE @,
                       !.calls = @ + 1,
                       !.pc = "call"]
    /\ UNCHANGED execVars

NextValidateRun == ValidateCall \/ ValidateLoop \/ ValidateReturn

SpecValidateRun == InitValidateRun /\ [][NextValidateRun]_vars

\* The statements run one by one return what validate_flow returns.
ValidateRunAgrees ==
    (probe.fn = "validate_flow_run" /\ probe.calls >= 1) =>
        probe.first = validate_flow(probe.definition, probe.strict)

\* C13: a second validate_flow call on the same definition returns the same
\* strings in the same order as the first, whatever the first call left in
\* the names it bound, and no statement of either call changes the
\* definition.
C13_ValidationIsPure ==
    probe.fn = "validate_flow_run" =>
        /\ probe.flow_definition = probe.definition
        /\ probe.calls = 2 => probe.second = probe.first

\* A definition with a repeated placeholder id was validated twice in strict
\* mode: the second call began with the ids the first had seen and returned
\* the duplicate and the scaffolding findings.
C13_Witness ==
    /\ probe.fn = "validate_flow_run" /\ probe.calls = 2 /\ probe.strict
    /\ probe.step_ids # {}
    /\ Len(probe.second) >= 3
    /\ Occurrences(probe.second,
                   Finding(1, "Duplicate step ID",
                           <<"t", "e", "s", "t", "_", "x">>, "")) = 1
    /\ \E k \in 1..Len(probe.second) :
         probe.second[k].what = "Placeholder ID detected"

\* The structural violations of a definition, each as the finding that
\* reports it: a missing top-level field (the identifier counted missing
\* when neither id nor layout_id is there), and per step a missing or
\* repeated id, a missing or unknown type, a missing message, missing
\* choices, a missing or repeated subid.
StructuralViolations(d) ==
    LET steps == IF "steps" \in DOMAIN d THEN d.steps ELSE <<>>
        when(cond, finding) == IF cond THEN {finding} ELSE {}
        plain(i) == "sublayout" \notin DOMAIN steps[i]
        type(i) == IF "type" \in DOMAIN steps[i] THEN steps[i].type ELSE "(none)"
        ofStep(i) ==
            IF plain(i)
            THEN when("id" \notin DOMAIN steps[i],
                      Finding(i - 1, "Missing 'id' field", <<>>, ""))
                 \cup when(/\ "id" \in DOMAIN steps[i]
                           /\ \E k \in 1..(i - 1) :
                                /\ plain(k) /\ "id" \in DOMAIN steps[k]
                                /\ steps[k].id = steps[i].id,
                           Finding(i - 1, "Duplicate step ID", steps[i].id, ""))
                 \cup when("type" \notin DOMAIN steps[i],
                           Finding(i - 1, "Missing 'type' field", <<>>, ""))
                 \cup when("type" \in DOMAIN steps[i] /\ type(i) \notin StepTypes,
                           Finding(i - 1, "Invalid step type", <<>>, type(i)))
                 \cup when(/\ "message" \notin DOMAIN steps[i]
                           /\ type(i) \notin {"computed", "info"},
                           Finding(i - 1, "Missing 'message' field", <<>>, ""))
                 \cup when(/\ type(i) \in {"select", "multiselect"}
                           /\ "choices" \notin DOMAIN steps[i],
                           Finding(i - 1, "step missing 'choices' field", <<>>,
                                   type(i)))
            ELSE when("subid" \notin DOMAIN steps[i],
                      Finding(i - 1, "Sublayout missing 'subid' field", <<>>, ""))
                 \cup when(/\ "subid" \in DOMAIN steps[i]
                           /\ \E k \in 1..(i - 1) :
                                /\ ~plain(k) /\ "subid" \in DOMAIN steps[k]
                                /\ steps[k].subid = steps[i].subid,
                           Finding(i - 1, "Duplicate subid", steps[i].subid, ""))
    IN  {Finding(-1, "Missing required field", <<>>, f) :
            f \in {"title", "steps"} \ DOMAIN d}
        \cup when({"id", "layout_id"} \cap DOMAIN d = {},
                  Finding(-1, "Missing required field", <<>>, "layout_id"))
        \cup UNION {ofStep(i) : i \in 1..Len(steps)}

\* C12: FlowEngine.validate_flow reports every structural violation of the
\* definition, each by one string, whatever else is wrong with it.
C12_ValidationCollectsAll ==
    (probe.fn = "validate_flow" /\ probe.engine = "FlowEngine"
        /\ probe.calls >= 1) =>
        \A v \in StructuralViolations(probe.definition) :
            Occurrences(probe.first, v) = 1

\* The definition {steps: [{type: text, message: "x"}]} was validated: the
\* missing title and the missing step id are both in the result.
C12_Witness ==
    /\ probe.fn = "validate_flow" /\ probe.engine = "FlowEngine"
    /\ probe.calls >= 1
    /\ probe.definition = [steps |-> <<[type |-> "text", message |-> "x"]>>]
    /\ Len(probe.first) >= 2
    /\ Occurrences(probe.first,
                   Finding(-1, "Missing required field", <<>>, "title")) = 1
    /\ Occurrences(probe.first, Finding(0, "Missing 'id' field", <<>>, "")) = 1

\* C14 as stated: the validators report a missing top-level identifier
\* exactly when the definition has neither id nor layout_id, and a
\* definition with either one, a title and well-formed steps validates to
\* an empty result in non-strict mode.
C14_IdentifierIdOrLayoutId ==
    (probe.fn = "validate_flow" /\ probe.calls >= 1) =>
        LET d == probe.definition
            identified == {"id", "layout_id"} \cap DOMAIN d # {}
            reported ==
                \E i \in 1..Len(probe.first) :
                    /\ probe.first[i].what = "Missing required field"
                    /\ probe.first[i].name \notin {"title", "steps"}
        IN  /\ reported <=> ~identified
            /\ (/\ identified /\ ~probe.strict
                /\ {"title", "steps"} \subseteq DOMAIN d
                /\ StructuralViolations(d) = {}) => probe.first = <<>>


\* ------------------------------------------------------------------------
\* The layout expanders: tui_form_designer.preprocessing.LayoutPreprocessor
\* and tui_form_engine.preprocessing.LayoutPreprocessor
\* ------------------------------------------------------------------------

MaxRootSteps == 3

\* Python's None in a field whose other values are text.
NoneText == "<None>"

\* What is found at a path of the layouts directory.
FileAt(fs, path) == IF path \in DOMAIN fs THEN fs[path] ELSE NoFile

\* Python's truth of d.get(k) for a text field.
TextSet(d, k) == k \in DOMAIN d /\ d[k] # ""

\* The designer's header step for a sublayout with a title or description.
header_step(sub_data) ==
    [id |-> <<"_", "h", "e", "a", "d", "e", "r", "_">>
              \o Get(sub_data, "layout_id",
                     <<"s", "u", "b", "l", "a", "y", "o", "u", "t">>),
     type |-> "info",
     title |-> IF TextSet(sub_data, "title") THEN sub_data.title ELSE "Section",
     message |-> IF TextSet(sub_data, "description")
                 THEN sub_data.description ELSE ""]

Expanded(steps) == [raised |-> "", why |-> "", steps |-> steps]

Failed(exc, why) == [raised |-> exc, why |-> why, steps |-> <<>>]

\* The designer's loop over the root's steps, from step i on: a step with a
\* truthy `sublayout` is replaced by the header and the steps of the file,
\* read one level deep; open() fails on a missing file.
RECURSIVE designer_expand_steps(_, _, _)
designer_expand_steps(fs, steps, i) ==
    IF i > Len(steps) THEN Expanded(<<>>)
    ELSE LET step == steps[i]
             sub == Get(step, "sublayout", "")
             sub_data == FileAt(fs, sub).def
             spliced ==
                 IF sub = "" THEN <<step>>
                 ELSE (IF TextSet(sub_data, "title")
                          \/ TextSet(sub_data, "description")
                       THEN <<header_step(sub_data)>> ELSE <<>>)
                      \o Get(sub_data, "steps", <<>>)
             rest == designer_expand_steps(fs, steps, i + 1)
         IN  IF sub # "" /\ FileAt(fs, sub).kind = "missing"
             THEN Failed("FileNotFoundError", "sublayout")
             ELSE IF sub # "" /\ FileAt(fs, sub).kind = "malformed"
             THEN Failed("YAMLError", "sublayout")
             ELSE IF rest.raised # "" THEN rest
             ELSE Expanded(spliced \o rest.steps)

\* The designer's reconstruct_virtual_layout: the root's mapping with its
\* steps replaced by the expanded ones.
designer_reconstruct_virtual_layout(fs, layout_path) ==
    LET root == FileAt(fs, layout_path)
        done == designer_expand_steps(fs, Get(root.def, "steps", <<>>), 1)
    IN  IF root.kind = "missing"
        THEN [raised |-> "FileNotFoundError", why |-> "layout", layout |-> EmptyDict]
        ELSE IF root.kind = "malformed"
        THEN [raised |-> "YAMLError", why |-> "layout", layout |-> EmptyDict]
        ELSE [raised |-> done.raised, why |-> done.why,
              layout |-> IF done.raised # "" THEN EmptyDict
                         ELSE DictSet(root.def, "steps", done.steps)]

\* The engine's _load_yaml refuses an empty document.
EmptyDocument(file) ==
    file.kind = "empty" \/ (file.kind = "mapping" /\ file.def = EmptyDict)

\* The engine's loop over the root's steps, from step i on: a step with a
\* `sublayout` key is replaced by the steps of the file (_load_sublayout),
\* read one level deep; a file already loaded in this reconstruction is
\* refused as a circular reference.
RECURSIVE engine_expand_steps(_, _, _, _)
engine_expand_steps(fs, steps, i, loaded_sublayouts) ==
    IF i > Len(steps) THEN Expanded(<<>>)
    ELSE LET step == steps[i]
             isRef == "sublayout" \in DOMAIN step
             file == FileAt(fs, step.sublayout)
             rest == engine_expand_steps(fs, steps, i + 1,
                        IF isRef THEN loaded_sublayouts \cup {step.sublayout}
                        ELSE loaded_sublayouts)
         IN  CASE isRef /\ step.sublayout \in loaded_sublayouts ->
                    Failed("ValueError", "circular")
               [] isRef /\ step.sublayout \notin loaded_sublayouts
                        /\ file.kind = "missing" ->
                    Failed("FileNotFoundError", "sublayout")
               [] isRef /\ step.sublayout \notin loaded_sublayouts
                        /\ file.kind = "malformed" ->
                    Failed("YAMLError", "sublayout")
               [] isRef /\ step.sublayout \notin loaded_sublayouts
                        /\ file.kind \notin {"missing", "malformed"}
                        /\ EmptyDocument(file) ->
                    Failed("ValueError", "empty")
               [] OTHER ->
                    IF rest.raised # "" THEN rest
                    ELSE Expanded((IF isRef THEN Get(file.def, "steps", <<>>)
                                   ELSE <<step>>) \o rest.steps)

\* The engine's _validate_step_ids: the truthy ids that occur again.
duplicates(steps) ==
    {i \in 1..Len(steps) :
        /\ Get(steps[i], "id", <<>>) # <<>>
        /\ \E j \in 1..(i - 1) : Get(steps[j], "id", <<>>) = steps[i].id}

\* The engine's reconstruct_virtual_layout: a new mapping with the root's
\* title, description, icon, version, metadata and defaults_file, and the
\* expanded steps, refused if an id occurs twice.
engine_reconstruct_virtual_layout(fs, layout_path) ==
    LET root == FileAt(fs, layout_path)
        main_layout == root.def
        done == engine_expand_steps(fs, Get(main_layout, "steps", <<>>), 1, {})
        virtual_layout ==
            [title |-> Get(main_layout, "title", "Untitled Layout"),
             description |-> Get(main_layout, "description", ""),
             icon |-> Get(main_layout, "icon", NoneText),
             version |-> Get(main_layout, "version", "1.0.0"),
             metadata |-> Get(main_layout, "metadata", EmptyDict),
             defaults_file |-> Get(main_layout, "defaults_file", NoneText),
             steps |-> done.steps]
        none == [raised |-> "", why |-> "", layout |-> EmptyDict]
    IN  CASE root.kind = "missing" ->
                [none EXCEPT !.raised = "FileNotFoundError", !.why = "layout"]
          [] root.kind = "malformed" ->
                [none EXCEPT !.raised = "YAMLError", !.why = "layout"]
          [] root.kind \notin {"missing", "malformed"} /\ EmptyDocument(root) ->
                [none EXCEPT !.raised = "ValueError", !.why = "empty"]
          [] OTHER ->
                IF done.raised # ""
                THEN [none EXCEPT !.raised = done.raised, !.why = done.why]
                ELSE IF duplicates(done.steps) # {}
                THEN [none EXCEPT !.raised = "ValueError", !.why = "duplicate"]
                ELSE [none EXCEPT !.layout = virtual_layout]

\* The steps of the layout files: plain steps and references to the files.
ExpandRootSteps ==
    { [id |-> idA, type |-> "text", message |-> "Name?"],
      [id |-> idB, type |-> "confirm", message |-> "Enable?"],
      [sublayout |-> "a.yml", subid |-> "s1"],
      [sublayout |-> "b.yml", subid |-> "s2"],
      [sublayout |-> "root.yml", subid |-> "s3"] }

ExpandRootDocs ==
    {NoFile}
    \cup {Mapping([layout_id |-> rootStem, title |-> "Root", steps |-> steps]) :
            steps \in UNION {[1..n -> ExpandRootSteps] : n \in 0..MaxRootSteps}}

\* A sublayout file: missing, empty, or a mapping with or without a title,
\* a description and a layout_id, whose steps are new, repeat an id of the
\* root, or refer to a file again.
ExpandSubDocs(other) ==
    {NoFile, EmptyFile}
    \cup {Mapping(DictMerge(top, [steps |-> steps])) :
            top \in {EmptyDict, [title |-> "Part"],
                     [layout_id |-> subStem, description |-> "About"]},
            steps \in { <<>>,
                        <<[id |-> idS, type |-> "confirm", message |-> "Sure?"]>>,
                        <<[id |-> idC, type |-> "text", message |-> "Opt?"],
                          [id |-> idA, type |-> "password", message |-> "Secret?"]>>,
                        <<[sublayout |-> other, subid |-> "s4"]>> }}

InitExpand ==
    /\ Parked
    /\ \E root \in ExpandRootDocs, a \in ExpandSubDocs("root.yml"),
          b \in ExpandSubDocs("a.yml"), class \in {"designer", "engine"} :
         probe = [fn |-> "reconstruct_virtual_layout", class |-> class,
                  fs |-> ("root.yml" :> root) @@ ("a.yml" :> a) @@ ("b.yml" :> b),
                  done |-> FALSE, raised |-> "", why |-> "",
                  layout |-> EmptyDict]

\* reconstruct_virtual_layout(layouts_dir / "root.yml") is called.
Expand ==
    /\ probe.fn = "reconstruct_virtual_layout" /\ ~probe.done
    /\ LET out == IF probe.class = "designer"
                  THEN designer_reconstruct_virtual_layout(probe.fs, "root.yml")
                  ELSE engine_reconstruct_virtual_layout(probe.fs, "root.yml")
       IN  probe' = [probe EXCEPT !.done = TRUE, !.raised = out.raised,
                                  !.why = out.why, !.layout = out.layout]
    /\ UNCHANGED execVars

NextExpand == Expand

SpecExpand == InitExpand /\ [][NextExpand]_vars


\* The root's steps the expander was given, and whether a step of the root
\* is a sublayout reference.
ExpandedRootSteps == Get(probe.fs["root.yml"].def, "steps", <<>>)

IsReference(step) == "sublayout" \in DOMAIN step

\* What a sublayout reference refers to.
Referred(step) == FileAt(probe.fs, step.sublayout).def

HasHeading(sub_data) ==
    "title" \in DOMAIN sub_data \/ "description" \in DOMAIN sub_data

\* The number of steps a step of the root contributes to the flattening.
FlatWidth(step) ==
    IF IsReference(step)
    THEN Len(Get(Referred(step), "steps", <<>>))
         + (IF HasHeading(Referred(step)) THEN 1 ELSE 0)
    ELSE 1

\* The position in the flattening before the contribution of root step i.
RECURSIVE FlatOffset(_)
FlatOffset(i) ==
    IF i <= 1 THEN 0
    ELSE FlatOffset(i - 1) + FlatWidth(ExpandedRootSteps[i - 1])

\* The contribution of root step i to the flattened sequence flat is what
\* the definition of flattening says: the step itself, or the referred
\* file's steps after an info header carrying its title and description.
SplicedAt(flat, i) ==
    LET step == ExpandedRootSteps[i]
        at == FlatOffset(i)
        sub_data == Referred(step)
        h == IF HasHeading(sub_data) THEN 1 ELSE 0
        sub_steps == Get(sub_data, "steps", <<>>)
    IN  IF ~IsReference(step) THEN flat[at + 1] = step
        ELSE /\ h = 1 =>
                  /\ flat[at + 1].type = "info"
                  /\ "title" \in DOMAIN sub_data =>
                        flat[at + 1].title = sub_data.title
                  /\ "description" \in DOMAIN sub_data =>
                        flat[at + 1].message = sub_data.description
             /\ \A k \in 1..Len(sub_steps) : flat[at + h + k] = sub_steps[k]

\* C15: when an expander returns, the flattened sequence has one step for
\* every plain step of the root, and for every sublayout reference the
\* steps of the referred file, preceded by an info header if that file has a
\* title or a description; each contribution stands at the position of its
\* root step, in order, plain steps unchanged.
C15_ExpansionFlattening ==
    (probe.fn = "reconstruct_virtual_layout" /\ probe.done /\ probe.raised = "") =>
        LET flat == probe.layout.steps
        IN  /\ Len(flat) = FlatOffset(Len(ExpandedRootSteps) + 1)
            /\ \A i \in 1..Len(ExpandedRootSteps) : SplicedAt(flat, i)

\* The same, of the designer's expander alone.
C15_DesignerFlattening == probe.class = "designer" => C15_ExpansionFlattening


\* The files a layout file refers to.
References(path) ==
    LET steps == Get(FileAt(probe.fs, path).def, "steps", <<>>)
    IN  {steps[i].sublayout : i \in {j \in 1..Len(steps) : IsReference(steps[j])}}

\* The files reached from a file through one or more references.
RECURSIVE ReachedIn(_, _)
ReachedIn(paths, n) ==
    IF n = 0 THEN paths
    ELSE ReachedIn(paths \cup UNION {References(q) : q \in paths}, n - 1)

ReachedFrom(path) == ReachedIn(References(path), Cardinality(DOMAIN probe.fs))

\* The root, or a sublayout the root reaches, refers back to itself.
CircularLayout ==
    \E path \in {"root.yml"} \cup ReachedFrom("root.yml") : path \in ReachedFrom(path)

\* C16: expanding a root whose references lead back to a file already on
\* the chain (the root itself included) ends with a failure, the
\* circular-reference one unless another failure comes first; it never
\* returns an expanded definition.
C16_CycleDetected ==
    (probe.fn = "reconstruct_virtual_layout" /\ probe.done /\ CircularLayout) =>
        probe.raised # ""


\* C17: a definition an expander returns has pairwise distinct step ids
\* over the whole flattened sequence, synthesized headers included.
C17_UniqueIdsAfterExpansion ==
    (probe.fn = "reconstruct_virtual_layout" /\ probe.done /\ probe.raised = "") =>
        LET flat == probe.layout.steps
        IN  \A i, j \in 1..Len(flat) :
                (i < j /\ "id" \in DOMAIN flat[i] /\ "id" \in DOMAIN flat[j])
                    => flat[i].id # flat[j].id

\* The same, of the engine's expander alone.
C17_EngineUniqueIds == probe.class = "engine" => C17_UniqueIdsAfterExpansion


\* ------------------------------------------------------------------------
\* The defaults mergers (tui_form_designer and tui_form_engine
\* DefaultsPreprocessor) and the renderer's use of them
\* ------------------------------------------------------------------------

Loaded(defaults) == [raised |-> "", defaults |-> defaults]

LoadFailed(exc) == [raised |-> exc, defaults |-> EmptyDict]

\* A text field that is set: neither absent, nor empty, nor None.
NamesFile(d, k) == k \in DOMAIN d /\ d[k] \notin {"", NoneText}

\* The designer's _load_defaults: only a missing file is forgiven.
designer_load_defaults(fs, path) ==
    LET file == FileAt(fs, path)
    IN  CASE file.kind = "missing" -> Loaded(EmptyDict)
          [] file.kind = "malformed" -> LoadFailed("YAMLError")
          [] OTHER -> Loaded(Get(file.def, "defaults", EmptyDict))

\* The designer's loop over the steps of layout_data, from step i on: the
\* defaults a readable sublayout names in `sublayout_defaults` are laid
\* over unified.
RECURSIVE designer_merge_steps(_, _, _, _)
designer_merge_steps(fs, steps, i, unified) ==
    IF i > Len(steps) THEN Loaded(unified)
    ELSE LET sub == Get(steps[i], "sublayout", "")
             file == FileAt(fs, sub)
             found == designer_load_defaults(fs, file.def.sublayout_defaults)
         IN  CASE sub = "" \/ file.kind = "missing" ->
                    designer_merge_steps(fs, steps, i + 1, unified)
               [] sub # "" /\ file.kind = "malformed" -> LoadFailed("YAMLError")
               [] OTHER ->
                    IF ~NamesFile(file.def, "sublayout_defaults")
                    THEN designer_merge_steps(fs, steps, i + 1, unified)
                    ELSE IF found.raised # "" THEN found
                    ELSE designer_merge_steps(fs, steps, i + 1,
                            DictMerge(unified, found.defaults))

\* The designer's merge_defaults: {"defaults": unified}.
designer_merge_defaults(fs, layout_data) ==
    LET main == IF NamesFile(layout_data, "defaults_file")
                THEN designer_load_defaults(fs, layout_data.defaults_file)
                ELSE Loaded(EmptyDict)
        all == designer_merge_steps(fs, Get(layout_data, "steps", <<>>), 1,
                                    main.defaults)
    IN  IF main.raised # "" THEN [raised |-> main.raised, returned |-> EmptyDict]
        ELSE [raised |-> all.raised,
              returned |-> IF all.raised # "" THEN EmptyDict
                           ELSE [defaults |-> all.defaults]]

\* The engine's _load_defaults_file: {} for a file that is missing,
\* unreadable, empty or without a `defaults` section.
engine_load_defaults_file(fs, defaults_path) ==
    LET file == FileAt(fs, defaults_path)
    IN  IF file.kind = "mapping" /\ "defaults" \in DOMAIN file.def
        THEN file.def.defaults ELSE EmptyDict

\* The engine's loop over the steps of layout_data, from step i on.
RECURSIVE engine_merge_steps(_, _, _, _)
engine_merge_steps(fs, steps, i, merged_defaults) ==
    IF i > Len(steps) THEN Loaded(merged_defaults)
    ELSE LET isRef == "sublayout" \in DOMAIN steps[i]
             file == FileAt(fs, steps[i].sublayout)
         IN  CASE ~isRef -> engine_merge_steps(fs, steps, i + 1, merged_defaults)
               [] isRef /\ file.kind = "missing" ->
                    engine_merge_steps(fs, steps, i + 1, merged_defaults)
               [] isRef /\ file.kind = "malformed" -> LoadFailed("YAMLError")
               [] isRef /\ file.kind = "empty" -> LoadFailed("TypeError")
               [] OTHER ->
                    engine_merge_steps(fs, steps, i + 1,
                        IF "sublayout_defaults" \in DOMAIN file.def
                        THEN DictMerge(merged_defaults,
                                engine_load_defaults_file(fs,
                                    file.def.sublayout_defaults))
                        ELSE merged_defaults)

\* The engine's merge_defaults: the merged mapping itself; a layout_data
\* whose `defaults_file` is None cannot be joined to the directory.
engine_merge_defaults(fs, layout_data) ==
    LET named == "defaults_file" \in DOMAIN layout_data
        all == engine_merge_steps(fs, Get(layout_data, "steps", <<>>), 1,
                  IF named
                  THEN engine_load_defaults_file(fs, layout_data.defaults_file)
                  ELSE EmptyDict)
    IN  IF named /\ layout_data.defaults_file = NoneText
        THEN [raised |-> "TypeError", returned |-> EmptyDict]
        ELSE [raised |-> all.raised, returned |-> all.defaults]

\* FormRenderer._has_sublayouts
has_sublayouts(flow_data) ==
    \E i \in 1..Len(Get(flow_data, "steps", <<>>)) :
        {"subid", "sublayout"} \subseteq DOMAIN flow_data.steps[i]

\* FormRenderer._validate_flow_structure finds nothing to report (of its
\* checks, the one on a select step's default is left out: no select step
\* has a default here).
flow_structure_valid(flow_def) ==
    /\ {"title", "steps"} \subseteq DOMAIN flow_def
    /\ flow_def.steps # <<>>
    /\ \A i \in 1..Len(flow_def.steps) :
         LET step == flow_def.steps[i]
         IN  /\ {"id", "type"} \subseteq DOMAIN step
             /\ \A j \in 1..(i - 1) : "id" \in DOMAIN flow_def.steps[j]
                                        => flow_def.steps[j].id # step.id
             /\ step.type = "select" => "choices" \in DOMAIN step

\* FormRenderer.render_flow(root.yml) up to its call of the executor, with
\* no debug directory: the steps of the flow_data it hands over, whose
\* `default` fields are what FormExecutor._build_question shows.
render_flow(fs, flow_path) ==
    LET root == FileAt(fs, flow_path)
        virtual == engine_reconstruct_virtual_layout(fs, flow_path)
        unified_defaults == engine_merge_defaults(fs, virtual.layout)
        flow_data == IF has_sublayouts(root.def) THEN virtual.layout ELSE root.def
        stop(exc) == [raised |-> exc, steps |-> <<>>]
    IN  CASE root.kind = "missing" -> stop("FileNotFoundError")
          [] root.kind = "malformed" -> stop("YAMLError")
          [] root.kind = "empty" -> stop("AttributeError")
          [] OTHER ->
               IF has_sublayouts(root.def) /\ virtual.raised # ""
               THEN stop(virtual.raised)
               ELSE IF has_sublayouts(root.def) /\ unified_defaults.raised # ""
               THEN stop(unified_defaults.raised)
               ELSE IF ~flow_structure_valid(flow_data) THEN stop("ValueError")
               ELSE [raised |-> "", steps |-> flow_data.steps]

\* A defaults file: missing, malformed, empty, without a `defaults`
\* section, or giving v to one or both step ids.
DefaultsDocs(v) ==
    {NoFile, BadYaml, EmptyFile, Mapping([version |-> "1"]),
     Mapping([defaults |-> (idA :> v)]),
     Mapping([defaults |-> (idA :> v) @@ (idB :> v)])}

\* A sublayout with one step, naming a defaults file or not.
DefaultsSubDocs(id, defaults_path) ==
    {NoFile, BadYaml, EmptyFile}
    \cup {Mapping(DictMerge(
              [title |-> "Part",
               steps |-> <<[id |-> id, type |-> "text", message |-> "Name?",
                            default |-> "A"]>>], named)) :
            named \in {EmptyDict, [sublayout_defaults |-> defaults_path]}}

\* The root: its own step with or without a hardcoded default, and
\* references to the two sublayouts in either order.
DefaultsRootDocs ==
    {Mapping(DictMerge([layout_id |-> rootStem, title |-> "Root", steps |-> steps],
                       named)) :
        named \in {EmptyDict, [defaults_file |-> "g.yml"]},
        steps \in { <<[id |-> idA, type |-> "text", message |-> "Name?",
                       default |-> "A"]>>,
                    <<[id |-> idB, type |-> "text", message |-> "Name?"]>>,
                    <<[sublayout |-> "a.yml", subid |-> "s1"]>>,
                    <<[sublayout |-> "a.yml", subid |-> "s1"],
                      [sublayout |-> "b.yml", subid |-> "s2"]>>,
                    <<[sublayout |-> "b.yml", subid |-> "s2"],
                      [sublayout |-> "a.yml", subid |-> "s1"]>> }}

InitDefaults ==
    /\ Parked
    /\ \E root \in DefaultsRootDocs,
          a \in DefaultsSubDocs(idA, "da.yml"), b \in DefaultsSubDocs(idB, "db.yml"),
          g \in DefaultsDocs("B"), da \in DefaultsDocs("C"), db \in DefaultsDocs("D") :
         probe = [fn |-> "merge_defaults", via |-> "",
                  fs |-> ("root.yml" :> root) @@ ("a.yml" :> a) @@ ("b.yml" :> b)
                         @@ ("g.yml" :> g) @@ ("da.yml" :> da) @@ ("db.yml" :> db),
                  done |-> FALSE, raised |-> "", returned |-> EmptyDict,
                  steps |-> <<>>]

\* merge_defaults(root.yml, the root's mapping) is called on one of the
\* two mergers.
MergeDefaults ==
    /\ probe.fn = "merge_defaults" /\ ~probe.done
    /\ \E class \in {"designer", "engine"} :
         LET out == IF class = "designer"
                    THEN designer_merge_defaults(probe.fs, probe.fs["root.yml"].def)
                    ELSE engine_merge_defaults(probe.fs, probe.fs["root.yml"].def)
         IN  probe' = [probe EXCEPT !.done = TRUE, !.via = class,
                                    !.raised = out.raised,
                                    !.returned = out.returned]
    /\ UNCHANGED execVars

\* render_flow(root.yml) is called.
RenderFlow ==
    /\ probe.fn = "merge_defaults" /\ ~probe.done
    /\ LET out == render_flow(probe.fs, "root.yml")
       IN  probe' = [probe EXCEPT !.done = TRUE, !.via = "render_flow",
                                  !.raised = out.raised, !.steps = out.steps]
    /\ UNCHANGED execVars

NextDefaults == MergeDefaults \/ RenderFlow

SpecDefaults == InitDefaults /\ [][NextDefaults]_vars


\* The defaults set a defaults file declares ({} if it declares none).
DeclaredDefaults(path) ==
    LET file == FileAt(probe.fs, path)
    IN  IF file.kind = "mapping" /\ "defaults" \in DOMAIN file.def
        THEN file.def.defaults ELSE EmptyDict

\* The global layer: the defaults set of the file the root declares.
GlobalDefaults ==
    LET root == probe.fs["root.yml"].def
    IN  IF "defaults_file" \in DOMAIN root THEN DeclaredDefaults(root.defaults_file)
        ELSE EmptyDict

\* The defaults set of the sublayout root step i refers to ({} if step i
\* is no reference or the sublayout declares none).
SublayoutDefaults(i) ==
    LET step == probe.fs["root.yml"].def.steps[i]
        sub == FileAt(probe.fs, Get(step, "sublayout", "")).def
    IN  IF "sublayout_defaults" \in DOMAIN sub
        THEN DeclaredDefaults(sub.sublayout_defaults) ELSE EmptyDict

\* The root steps whose sublayout defaults hold the id.
Declaring(id) ==
    {i \in 1..Len(probe.fs["root.yml"].def.steps) : id \in DOMAIN SublayoutDefaults(i)}

\* An external layer holds a default for the id.
HasExternalDefault(id) == Declaring(id) # {} \/ id \in DOMAIN GlobalDefaults

\* The default of highest priority among the external layers.
ExternalDefault(id) ==
    IF Declaring(id) # {}
    THEN SublayoutDefaults(CHOOSE i \in Declaring(id) : \A j \in Declaring(id) : j <= i)[id]
    ELSE GlobalDefaults[id]

\* The mapping merge_defaults returned.
MergedMapping ==
    IF probe.via = "designer" THEN probe.returned.defaults ELSE probe.returned

\* The merged mapping holds, for every id, the value of the last sublayout
\* defaults set that has it, else the global one.
C18_MergedPriority ==
    (probe.fn = "merge_defaults" /\ probe.done /\ probe.raised = ""
        /\ probe.via \in {"designer", "engine"}) =>
        /\ DOMAIN MergedMapping = {id \in {idA, idB} : HasExternalDefault(id)}
        /\ \A id \in DOMAIN MergedMapping : MergedMapping[id] = ExternalDefault(id)

\* C18: the default applied to a prompted step is the value of the last
\* sublayout-declared defaults set (in root step order) that has the step's
\* id, else the value of the root-declared defaults file, else the step's
\* hardcoded default; and the merged mapping holds every layer's keys, a
\* later sublayout winning a collision.
C18_DefaultsPriority ==
    /\ C18_MergedPriority
    /\ (probe.fn = "merge_defaults" /\ probe.done /\ probe.raised = ""
          /\ probe.via = "render_flow") =>
         \A i \in 1..Len(probe.steps) :
            LET step == probe.steps[i]
            IN  HasExternalDefault(step.id) =>
                    /\ "default" \in DOMAIN step
                    /\ step.default = ExternalDefault(step.id)


\* Every sublayout file the root refers to is missing or a readable
\* mapping: only defaults files are empty or malformed.
SublayoutsReadable ==
    \A i \in 1..Len(probe.fs["root.yml"].def.steps) :
        FileAt(probe.fs, Get(probe.fs["root.yml"].def.steps[i], "sublayout", "")).kind
            \in {"missing", "mapping"}

\* C19: merge_defaults does not fail because a defaults file the root or a
\* sublayout declares is missing or malformed: it returns, and the mapping
\* holds what the remaining layers give.
C19_DefaultsSoftFailure ==
    (probe.fn = "merge_defaults" /\ probe.done
        /\ probe.via \in {"designer", "engine"} /\ SublayoutsReadable) =>
        /\ probe.raised = ""
        /\ DOMAIN MergedMapping = {id \in {idA, idB} : HasExternalDefault(id)}
        /\ \A id \in DOMAIN MergedMapping : MergedMapping[id] = ExternalDefault(id)

\* The same, of the engine's merger alone.
C19_EngineSoftFailure == probe.via = "engine" => C19_DefaultsSoftFailure


\* ------------------------------------------------------------------------
\* Validation failures and prompting (the executor, under Spec)
\* ------------------------------------------------------------------------

\* C20: within one top-level execute_flow call, FlowValidationError is
\* raised, by the call itself or by a sub-run it started, only while no
\* step has been asked and no answer recorded.
C20_NoValidationFailureAfterPrompting ==
    /\ \A k \in 1..Depth :
         frames[k].exc = "FlowValidationError" =>
            /\ hist.asks = 0
            /\ \A j \in 1..Depth : frames[j].answers = EmptyDict
    /\ (Idle /\ outcome.kind = "FlowValidationError") => hist.asks = 0


\* ------------------------------------------------------------------------
\* The engine package's executor: FormExecutor.execute_flow
\* ------------------------------------------------------------------------

\* The definitions FormExecutor is run on, as a file of the flows directory
\* or as flow_data (none declares a defaults_file).
FormDocs ==
    {NoFile, EmptyFile, BadYaml}
    \cup {Mapping(Definition(top, steps)) :
            top \in {"flow_id", "layout_id", "untitled", "mapped"},
            steps \in StepLists}

\* FormExecutor._build_question: "ask" if a question comes back, "none" if
\* no branch matches the type, "KeyError" if a field it indexes is absent.
FormQuestion(step) ==
    CASE step.type = "info" -> "ask"
      [] step.type = "select" ->
            IF {"choices", "message"} \subseteq DOMAIN step THEN "ask" ELSE "KeyError"
      [] step.type \in {"text", "password", "confirm"} ->
            IF "message" \in DOMAIN step THEN "ask" ELSE "KeyError"
      [] OTHER -> "none"

\* What ask may return for the question built for a step: info and confirm
\* steps are questionary.confirm prompts, the others return text.
FormAnswers(step) ==
    IF step.type \in {"confirm", "info"} THEN {VBool(TRUE), VBool(FALSE)}
    ELSE {VStr(<<"x">>)}

\* One turn of the loop of execute_flow up to the call of ask: what it
\* does (kind), the answers it leaves, the exception it raises.
FormDispatch(step, context, answers, mocks) ==
    LET merged == DictMerge(context, answers)
        turn(kind, left, exc) == [kind |-> kind, answers |-> left, raised |-> exc]
    IN  CASE "type" \notin DOMAIN step -> turn("error", answers, "KeyError")
          [] "type" \in DOMAIN step /\ step.type = "computed" ->
                IF "compute" \notin DOMAIN step THEN turn("computed", answers, "")
                ELSE IF evaluate_expression_raises(step.compute)
                THEN turn("error", answers, "ValueError")
                ELSE IF "id" \notin DOMAIN step THEN turn("error", answers, "KeyError")
                ELSE turn("computed",
                          DictSet(answers, step.id,
                              VBool(evaluate_expression(step.compute, merged))), "")
          [] OTHER ->
                IF should_show_step_raises(step) THEN turn("error", answers, "ValueError")
                ELSE IF ~should_show_step(step, merged) THEN turn("skip", answers, "")
                ELSE IF "id" \notin DOMAIN step THEN turn("error", answers, "KeyError")
                ELSE IF step.id \in DOMAIN mocks
                THEN turn("mock", DictSet(answers, step.id, mocks[step.id]),
                          IF "message" \in DOMAIN step THEN "" ELSE "KeyError")
                ELSE IF FormQuestion(step) = "KeyError"
                THEN turn("error", answers, "KeyError")
                ELSE turn(FormQuestion(step), answers, "")

InitFormExec ==
    /\ Parked
    /\ \E doc \in FormDocs, via \in {"file", "flow_data"},
          context \in Contexts, mocks \in MockSets :
         /\ via = "flow_data" => doc.kind = "mapping"
         /\ probe = [fn |-> "FormExecutor.execute_flow", via |-> via, doc |-> doc,
                     context |-> context, mocks |-> mocks, pc |-> "enter",
                     def |-> EmptyDict, errors |-> <<>>, idx |-> 0,
                     answers |-> EmptyDict, asks |-> 0, turns |-> 0,
                     raised |-> "", result |-> EmptyDict]

\* Lines 85-102: the definition is taken from flow_data or loaded, then
\* validate_flow is called and what it returns is dropped (line 97), and
\* the header is printed.
FormEnter ==
    /\ probe.fn = "FormExecutor.execute_flow" /\ probe.pc = "enter"
    /\ LET errors == FormExecutor_validate_flow(probe.doc.def)
           exc == CASE probe.doc.kind # "mapping" -> "FlowValidationError"
                    [] OTHER ->
                          IF {"title", "steps"} \subseteq DOMAIN probe.doc.def
                          THEN "" ELSE "KeyError"
       IN  probe' = [probe EXCEPT
               !.def = probe.doc.def,
               !.errors = IF probe.doc.kind = "mapping" THEN errors ELSE <<>>,
               !.raised = exc,
               !.pc = IF exc = "" THEN "step" ELSE "done",
               !.idx = 1]
    /\ UNCHANGED execVars

\* Lines 107-129: one turn of the loop, up to the call of ask: the
\* condition, the mock, the question built (an info step prints its title
\* and message), and ask entered with the answer not yet recorded.
FormStep ==
    /\ probe.fn = "FormExecutor.execute_flow" /\ probe.pc = "step"
    /\ probe.idx <= Len(probe.def.steps)
    /\ LET step == probe.def.steps[probe.idx]
           d == FormDispatch(step, probe.context, probe.answers, probe.mocks)
           turn == [probe EXCEPT !.turns = probe.turns + 1]
       IN  probe' = IF d.kind = "ask"
                    THEN [turn EXCEPT !.asks = probe.asks + 1, !.pc = "ask"]
                    ELSE [turn EXCEPT
                            !.idx = probe.idx + 1,
                            !.answers = d.answers, !.raised = d.raised,
                            !.pc = IF d.raised = "" THEN "step" ELSE "done"]
    /\ UNCHANGED execVars

\* Lines 129-130: ask returns an answer, or None, and it is recorded under
\* the step's id.
FormAnswered ==
    /\ probe.fn = "FormExecutor.execute_flow" /\ probe.pc = "ask"
    /\ LET step == probe.def.steps[probe.idx]
       IN  \E answer \in FormAnswers(step) \cup {VNone} :
             probe' = [probe EXCEPT
                 !.pc = "step", !.idx = probe.idx + 1,
                 !.answers = DictSet(probe.answers, step.id, answer)]
    /\ UNCHANGED execVars

\* Lines 136-138: KeyboardInterrupt is raised inside ask.
FormCancelled ==
    /\ probe.fn = "FormExecutor.execute_flow" /\ probe.pc = "ask"
    /\ probe' = [probe EXCEPT !.pc = "done", !.idx = probe.idx + 1,
                              !.raised = "FlowExecutionError"]
    /\ UNCHANGED execVars

\* Lines 140-144: the answers, through output_mapping if there is one.
FormFinish ==
    /\ probe.fn = "FormExecutor.execute_flow" /\ probe.pc = "step"
    /\ probe.idx > Len(probe.def.steps)
    /\ probe' = [probe EXCEPT !.pc = "done",
                              !.result = FlowResult(probe.def, probe.answers)]
    /\ UNCHANGED execVars

NextFormExec ==
    FormEnter \/ FormStep \/ FormAnswered \/ FormCancelled \/ FormFinish

SpecFormExec == InitFormExec /\ [][NextFormExec]_vars

\* C21: FormExecutor.execute_flow, on a definition for which validate_flow
\* returns findings, ends with a validation failure before a step is
\* processed: no turn of the loop, no ask, no answer.
C21_FormValidationGate ==
    (probe.fn = "FormExecutor.execute_flow" /\ probe.pc # "enter"
        /\ probe.errors # <<>>) =>
        /\ probe.raised = "FlowValidationError"
        /\ probe.turns = 0 /\ probe.asks = 0 /\ probe.answers = EmptyDict


\* ------------------------------------------------------------------------
\* Definition files whose references form a cycle
\* ------------------------------------------------------------------------

rootPath == <<"r", "o", "o", "t", ".", "y", "m", "l">>

CycleRootDocs ==
    {Mapping(Definition("layout_id", steps)) :
        steps \in { <<StepPool[1]>>,
                    <<StepPool[1], [sublayout |-> subPath, subid |-> "s1"]>>,
                    <<StepPool[2], [sublayout |-> rootPath, subid |-> "s1"]>> }}

CycleSubDocs ==
    {NoFile}
    \cup {Mapping([layout_id |-> "sub", title |-> "Sub", steps |-> steps]) :
            steps \in { <<[id |-> idS, type |-> "confirm", message |-> "Sure?"]>>,
                        <<[id |-> idS, type |-> "confirm", message |-> "Sure?"],
                          [sublayout |-> rootPath, subid |-> "s2"]>>,
                        <<[sublayout |-> subPath, subid |-> "s2"]>> }}

InitCycle ==
    /\ \E root \in CycleRootDocs, sub \in CycleSubDocs :
         files = (rootStem :> root) @@ (subStem :> sub)
    /\ context0 \in Contexts
    /\ mock_responses \in MockSets
    /\ frames = <<>>
    /\ engine = [exit_requested |-> FALSE]
    /\ handler = 0
    /\ outcome = NoOutcome
    /\ calls = 0
    /\ interrupts = 0
    /\ elapsed = 0
    /\ hist = NoHist
    /\ last = "init"
    /\ probe = NoProbe

\* The interpreter goes on with the call in progress, and every ask
\* returns or is cancelled.
Progress ==
    EnterTry \/ Load \/ Validate \/ RunStep \/ AskAnswered \/ AskReturnedNone
    \/ AskFailed \/ Finish \/ Return \/ Unwind \/ RaisedOutsideTry

SpecCycle == InitCycle /\ [][Next]_vars /\ WF_vars(Progress)

\* The ways the specification lets a call end: a result, a cancellation, a
\* validation or load failure.
TerminalOutcomes == {"returned", "FlowExecutionError", "FlowValidationError"}

\* C22: every execute_flow call ends, also on files whose references form a
\* cycle, and a call no SIGINT was delivered to ends with a result, a
\* cancellation, or a validation or load failure.
C22_ExecutionTerminates ==
    /\ [](Idle /\ calls > 0 /\ interrupts = 0 =>
            outcome.kind \in TerminalOutcomes)
    /\ (~Idle ~> Idle)

\* Every call ends, the recursion limit counted among the ways to end.
C22_EndsAtRecursionLimit ==
    /\ [](Idle /\ calls > 0 /\ interrupts = 0 =>
            outcome.kind \in TerminalOutcomes \cup {"RecursionError"})
    /\ (~Idle ~> Idle)


\* C23: the SIGINT handler in force is that of the engine running the
\* innermost execute_flow call in progress, every call in progress saved
\* the handler its caller ran under, and once the top-level call has ended,
\* however it ended, the handler is the one installed before it.
C23_HandlerRestored ==
    /\ handler = Depth
    /\ \A k \in 1..Depth : frames[k].original = k - 1

\* The same of an engine's first call while no SIGINT has been handled.
C23_HandlerRestoredWithoutSignal ==
    (calls <= 1 /\ interrupts = 0 /\ hist.late = 0) =>
        /\ handler = Depth
        /\ \A k \in 1..Depth : frames[k].original = k - 1


\* The step at hand is a computed step.
Computed ==
    /\ AtStep
    /\ "sublayout" \notin DOMAIN CurrentStep
    /\ CurrentStep.type = "computed"

\* The loop takes its turn on the step at hand (no SIGINT comes first).
TurnTaken == frames' # frames /\ last' # "sigint"

\* C24: the turn of the loop on a computed step moves past it without an
\* ask and without looking at the mocks; with `compute` it stores the value
\* of the expression in the context overlaid with the answers so far under
\* the step's id, without `compute` it leaves the answers as they are.
C24_ComputedStepStores ==
    [][(Computed /\ TurnTaken) =>
        /\ StepDone
        /\ hist'.asks = hist.asks
        /\ frames'[Depth].answers =
              IF "compute" \in DOMAIN CurrentStep
              THEN DictSet(frames[Depth].answers, CurrentStep.id,
                       VBool(evaluate_expression(CurrentStep.compute,
                                                 Merged(frames[Depth]))))
              ELSE frames[Depth].answers]_vars

\* The same of the computed steps whose expression int() and float() accept.
C24_ConvertibleComputedStepStores ==
    [][(Computed /\ TurnTaken /\ ~StepRaises(CurrentStep)) =>
        /\ StepDone
        /\ hist'.asks = hist.asks
        /\ frames'[Depth].answers =
              IF "compute" \in DOMAIN CurrentStep
              THEN DictSet(frames[Depth].answers, CurrentStep.id,
                       VBool(evaluate_expression(CurrentStep.compute,
                                                 Merged(frames[Depth]))))
              ELSE frames[Depth].answers]_vars


\* The answers of the calls below the innermost one are as they were.
ParentsUntouched ==
    \A k \in 1..(Depth - 1) :
        Len(frames') >= k + 1 => frames'[k].answers = frames[k].answers

\* The innermost call ends, by return or by an exception, and its parent is
\* the innermost call again.
SubRunEnds == Depth >= 2 /\ Len(frames') = Depth - 1

\* C25: a sub-run's context is the caller's context overlaid with the
\* answers its parent had when it started; while the sub-run is in progress
\* the parent's answers stay as they are, when it returns they become the
\* old ones overlaid with its result, when it fails they stay; the context
\* and mock mappings the caller supplied never change.
C25_ContextHandOff ==
    /\ [](/\ Depth >= 1 => frames[1].context = context0
          /\ \A k \in 2..Depth :
               frames[k].context =
                   DictMerge(frames[k - 1].context, frames[k - 1].answers))
    /\ [][/\ ParentsUntouched
          /\ SubRunEnds =>
               frames'[Depth - 1].answers =
                   IF last' = "return"
                   THEN DictMerge(frames[Depth - 1].answers, frames[Depth].ret)
                   ELSE frames[Depth - 1].answers
          /\ context0' = context0
          /\ mock_responses' = mock_responses]_vars

\* A sub-run that started from its parent's answer has returned, and the
\* parent holds its own answer and the sub-run's.
C25_Witness ==
    /\ Depth = 1 /\ last = "return"
    /\ {idB, idS} \subseteq DOMAIN frames[1].answers


\* C26: the layout an expander returns holds no sublayout reference,
\* whatever the depth at which the files refer to one another.
C26_NoReferenceLeft ==
    (probe.fn = "reconstruct_virtual_layout" /\ probe.done /\ probe.raised = "") =>
        \A i \in 1..Len(probe.layout.steps) : ~IsReference(probe.layout.steps[i])

\* The same of the layouts whose sublayout files hold no reference.
C26_OneLevelFlattened ==
    (/\ probe.fn = "reconstruct_virtual_layout" /\ probe.done /\ probe.raised = ""
     /\ \A i \in 1..Len(ExpandedRootSteps) :
          IsReference(ExpandedRootSteps[i]) =>
             \A j \in 1..Len(Get(Referred(ExpandedRootSteps[i]), "steps", <<>>)) :
                ~IsReference(Referred(ExpandedRootSteps[i]).steps[j])) =>
        \A i \in 1..Len(probe.layout.steps) : ~IsReference(probe.layout.steps[i])


\* The root definition the expander was given.
ExpandedRoot == probe.fs["root.yml"].def

\* Every top-level field of the root but `steps` is in the returned layout
\* with the same value.
FieldsKept ==
    \A k \in DOMAIN ExpandedRoot \ {"steps"} :
        k \in DOMAIN probe.layout /\ probe.layout[k] = ExpandedRoot[k]

\* C27: the layout an expander returns has every top-level field of the
\* root other than `steps`, its identifier among them, with the root's
\* value.
C27_TopLevelFieldsKept ==
    (probe.fn = "reconstruct_virtual_layout" /\ probe.done /\ probe.raised = "") =>
        FieldsKept

\* The same of the designer package's expander alone.
C27_DesignerFieldsKept ==
    (/\ probe.fn = "reconstruct_virtual_layout" /\ probe.done /\ probe.raised = ""
     /\ probe.class = "designer") =>
        FieldsKept


\* ------------------------------------------------------------------------
\* The scaffolding checks of strict validation on ids in either case
\* ------------------------------------------------------------------------

\* Step ids: placeholder prefixes in lower, mixed and upper case, the
\* scaffolding template's id, and ids that hold a prefix elsewhere or not.
ScaffoldIds ==
    { <<"t", "e", "s", "t", "_", "x">>, <<"T", "e", "s", "t", "_", "x">>,
      <<"T", "E", "S", "T", "_", "x">>, <<"D", "e", "m", "o", "_", "x">>,
      example_input,
      <<"x", "t", "e", "s", "t", "_">>, <<"t", "e", "s", "t">>, idA }

ScaffoldSteps ==
    {[id |-> id, type |-> "text", message |-> message] :
        id \in ScaffoldIds, message \in {"Name?", "Enter a value:"}}
    \cup {[id |-> id, type |-> "text", message |-> "Enter a value:",
           instruction |-> "Provide configuration input"] : id \in ScaffoldIds}

InitScaffold ==
    /\ Parked
    /\ \E steps \in UNION {[1..n -> ScaffoldSteps] : n \in 1..MaxSteps},
          strict \in BOOLEAN :
         probe = [fn |-> "validate_flow.strict",
                  definition |-> Definition("layout_id", steps),
                  strict |-> strict, done |-> FALSE, findings |-> <<>>]

\* validate_flow(definition, strict) is called.
Scaffold ==
    /\ probe.fn = "validate_flow.strict" /\ ~probe.done
    /\ probe' = [probe EXCEPT
          !.done = TRUE,
          !.findings = validate_flow(probe.definition, probe.strict)]
    /\ UNCHANGED execVars

NextScaffold == Scaffold

SpecScaffold == InitScaffold /\ [][NextScaffold]_vars

\* The findings hold one of the given kind.
Found(what) == \E i \in 1..Len(probe.findings) : probe.findings[i].what = what

\* C28: in strict mode, a definition of exactly one step whose id gets the
\* placeholder-id finding also gets the finding that the form appears
\* incomplete.
C28_SingleStepScaffolding ==
    (/\ probe.fn = "validate_flow.strict" /\ probe.done /\ probe.strict
     /\ Len(probe.definition.steps) = 1
     /\ Found("Placeholder ID detected")) =>
        Found("Only 1 step with placeholder ID")

\* The same of the ids that begin with a prefix as they are written.
C28_LowerCaseSingleStepScaffolding ==
    (/\ probe.fn = "validate_flow.strict" /\ probe.done /\ probe.strict
     /\ Len(probe.definition.steps) = 1
     /\ Found("Placeholder ID detected")
     /\ probe.definition.steps[1].id = Lower(probe.definition.steps[1].id)) =>
        Found("Only 1 step with placeholder ID")


\* ------------------------------------------------------------------------
\* The validator tool's fragment validation:
\* tui_form_designer.tools.validator.FlowValidator._validate_sublayout
\* ------------------------------------------------------------------------

\* Lines 225-262: the structural findings of one step of a fragment.
FragmentStepFindings(i, step, step_ids) ==
    LET type == IF "type" \in DOMAIN step THEN step.type ELSE "(none)"
    IN  (IF "id" \notin DOMAIN step
         THEN <<Finding(i, "Missing 'id' field", <<>>, "")>>
         ELSE IF step.id \in step_ids
         THEN <<Finding(i, "Duplicate step ID", step.id, "")>>
         ELSE <<>>)
        \o
        (IF "type" \notin DOMAIN step
         THEN <<Finding(i, "Missing 'type' field", <<>>, "")>>
         ELSE IF step.type \notin {"text", "select", "multiselect", "confirm",
                                   "password", "computed", "info"}
         THEN <<Finding(i, "Invalid step type", <<>>, step.type)>>
         ELSE <<>>)
        \o
        (IF "message" \notin DOMAIN step /\ type \notin {"computed", "info"}
         THEN <<Finding(i, "Missing 'message' field", <<>>, "")>>
         ELSE <<>>)
        \o
        (IF type \in {"select", "multiselect"} /\ "choices" \notin DOMAIN step
         THEN <<Finding(i, "step missing 'choices' field", <<>>, type)>>
         ELSE <<>>)

\* Lines 223-262: the loop over the steps of a fragment, i counting from 0.
RECURSIVE FragmentValidateSteps(_, _, _)
FragmentValidateSteps(steps, i, step_ids) ==
    IF i >= Len(steps) THEN <<>>
    ELSE FragmentStepFindings(i, steps[i + 1], step_ids)
         \o FragmentValidateSteps(steps, i + 1,
               IF "id" \in DOMAIN steps[i + 1]
               THEN step_ids \cup {steps[i + 1].id} ELSE step_ids)

\* Lines 299-317: the scaffolding findings of one step of a fragment; the id
\* is tested as written, against three generic messages and two generic
\* instructions.
FragmentStepScaffolding(i, step) ==
    LET step_id     == Get(step, "id", <<"s", "t", "e", "p", "_">> \o NatToStr(i))
        message     == Get(step, "message", "")
        instruction == Get(step, "instruction", "")
    IN  (IF StartsWithPlaceholder(step_id)
         THEN <<Finding(i, "Placeholder ID detected", step_id, "")>> ELSE <<>>)
        \o
        (IF message \in {"Enter a value:", "Provide configuration input",
                         "Enter text here"}
         THEN <<Finding(i, "Generic message", step_id, message)>> ELSE <<>>)
        \o
        (IF instruction \in {"Provide configuration input", "Enter your input"}
         THEN <<Finding(i, "Generic instruction", step_id, instruction)>>
         ELSE <<>>)

RECURSIVE FragmentScaffoldingOfSteps(_, _)
FragmentScaffoldingOfSteps(steps, i) ==
    IF i >= Len(steps) THEN <<>>
    ELSE FragmentStepScaffolding(i, steps[i + 1])
         \o FragmentScaffoldingOfSteps(steps, i + 1)

\* FlowValidator._validate_production_ready_steps
validate_production_ready_steps(steps) ==
    LET found == FragmentScaffoldingOfSteps(steps, 0)
        placeholder_count ==
            Cardinality({j \in 1..Len(found) :
                            found[j].what = "Placeholder ID detected"})
    IN  found
        \o (IF placeholder_count > 0 /\ Len(steps) = 1
            THEN <<Finding(-1, "Only 1 step with placeholder ID", <<>>, "")>>
            ELSE <<>>)

\* FlowValidator._validate_sublayout, for a fragment that names no
\* sublayout_defaults file.
validate_sublayout(sublayout_def, strict) ==
    (IF "title" \notin DOMAIN sublayout_def
     THEN <<Finding(-1, "Missing required field", <<>>, "title")>> ELSE <<>>)
    \o
    (IF "steps" \notin DOMAIN sublayout_def
     THEN <<Finding(-1, "Missing required field", <<>>, "steps")>>
     ELSE IF Len(sublayout_def.steps) = 0
     THEN <<Finding(-1, "'steps' must be a non-empty list", <<>>, "")>>
     ELSE FragmentValidateSteps(sublayout_def.steps, 0, {}))
    \o
    (IF strict /\ "steps" \in DOMAIN sublayout_def
     THEN validate_production_ready_steps(sublayout_def.steps) ELSE <<>>)

\* Plain steps: with each structural violation, and with ids, messages and
\* instructions of the scaffolding lists.
FragmentSteps ==
    {step \in ValStepPool : "sublayout" \notin DOMAIN step}
    \cup { [id |-> <<"T", "e", "s", "t", "_", "x">>, type |-> "text",
            message |-> "Name?"],
           [id |-> idS, type |-> "select", message |-> "Select an option",
            choices |-> <<"x", "y">>],
           [id |-> idI, type |-> "text", message |-> "Name?",
            instruction |-> "Fill in this field"],
           [id |-> idE, type |-> "text", message |-> "Email?",
            instruction |-> "Enter your input"],
           [id |-> example_input, type |-> "text", message |-> "Enter a value:",
            instruction |-> "Provide configuration input"] }

InitFragment ==
    /\ Parked
    /\ \E steps \in UNION {[1..n -> FragmentSteps] : n \in 0..MaxSteps},
          strict \in BOOLEAN :
         probe = [fn |-> "_validate_sublayout", steps |-> steps,
                  strict |-> strict, pc |-> "fragment",
                  fragment |-> <<>>, full |-> <<>>]

\* FlowValidator(strict=strict)._validate_sublayout is called on the steps
\* as a fragment with a title.
ValidateFragment ==
    /\ probe.fn = "_validate_sublayout" /\ probe.pc = "fragment"
    /\ probe' = [probe EXCEPT
          !.pc = "full",
          !.fragment = validate_sublayout([title |-> "S", steps |-> probe.steps],
                                          probe.strict)]
    /\ UNCHANGED execVars

\* FlowEngine.validate_flow is called on the same steps as a full definition.
ValidateFull ==
    /\ probe.fn = "_validate_sublayout" /\ probe.pc = "full"
    /\ probe' = [probe EXCEPT
          !.pc = "done",
          !.full = validate_flow(Definition("layout_id", probe.steps),
                                 probe.strict)]
    /\ UNCHANGED execVars

NextFragment == ValidateFragment \/ ValidateFull

SpecFragment == InitFragment /\ [][NextFragment]_vars

\* The steps a result flags, each with the reason.
Flagged(findings) ==
    {<<findings[j].step, findings[j].what>> : j \in 1..Len(findings)}

\* C29: a non-empty list of plain steps gets the same findings, step by step
\* and reason by reason, as a fragment and as the steps of a full
\* definition, in strict mode and without; an empty list is refused as a
\* fragment only.
C29_FragmentValidationAgrees ==
    (probe.fn = "_validate_sublayout" /\ probe.pc = "done") =>
        IF probe.steps = <<>>
        THEN Flagged(probe.fragment)
                = {<<-1, "'steps' must be a non-empty list">>}
             /\ probe.full = <<>>
        ELSE Flagged(probe.fragment) = Flagged(probe.full)

\* The same without strict mode: the structural findings alone.
C29_StructuralFindingsAgree ==
    (probe.fn = "_validate_sublayout" /\ probe.pc = "done" /\ ~probe.strict) =>
        IF probe.steps = <<>>
        THEN Flagged(probe.fragment)
                = {<<-1, "'steps' must be a non-empty list">>}
             /\ probe.full = <<>>
        ELSE probe.fragment = probe.full


\* The probe holds an integer at the path and its decimal text as the
\* right-hand token.
IntegerRoundTrip ==
    /\ probe.fn = "evaluate_expression" /\ probe.done
    /\ probe.left \in {VInt(n) : n \in (0 - MaxInt)..MaxInt}
    /\ probe.text = IntToStr(probe.left.n)

\* C30: for every integer n of -MaxInt..MaxInt, the expression "k == L", L
\* the decimal text of n, is true in a context that holds n at k.
C30_IntegerRoundTrip == IntegerRoundTrip => probe.result

\* The same of the integers from 0 on.
C30_UnsignedIntegerRoundTrip ==
    (IntegerRoundTrip /\ probe.left.n >= 0) => probe.result

====
